---- MODULE Spec2Model ----
(***************************************************************************)
(* The MKRM rice shop (src/index.tsx): the DataProcessor module that       *)
(* synthesizes traceability records from batch identifiers, and the App    *)
(* component's cart / checkout / order-history state.                      *)
(*                                                                         *)
(* Strings the code inspects character by character (CSV text, batch       *)
(* identifiers, lookup keys) are sequences of one-character strings.       *)
(* Strings the code only passes around (names, grades) are TLA+ strings.   *)
(* A JavaScript Date is its day number (days since 1970-01-01, local       *)
(* calendar); getDate/getMonth/getFullYear/setDate are computed from it    *)
(* with the ECMAScript day/year/month arithmetic.                          *)
(***************************************************************************)
EXTENDS Integers, Sequences, FiniteSets, TLC

VARIABLES
    page,              \* App: useState('shop')
    cart,              \* App: useState([])   sequence of cart lines
    orders,            \* App: useState([])   sequence of orders
    ops,               \* number of cart and checkout operations so far
    call,              \* the last operation applied and its arguments
    csvText,           \* the text handed to processCsvData
    traceabilityData,  \* App: useState({})   batch id -> record
    loaded,            \* fetchTraceData: "pending", "done" or "failed"
    batchId,           \* the argument of generateTraceabilityRecord
    record,            \* its result (Null or Some(record))
    generated,         \* generateTraceabilityRecord has returned
    apiKey,            \* process.env.API_KEY (Null when the build has none)
    traceResult,       \* Traceability: useState(null)   result
    traceError,        \* Traceability: useState('')     error
    formData,          \* PriceEstimator: useState({...}) formData
    priceResult,       \* PriceEstimator: useState(null)  result
    priceError,        \* PriceEstimator: useState('')    error
    priceLoading,      \* PriceEstimator: useState(false) isLoading
    priceCall,         \* the estimatePrice call in flight or last settled
    messages,          \* Chatbot: useState([greeting])  messages
    isLoading,         \* Chatbot: useState(false)       isLoading
    stream             \* the sendMessage call in flight: its local variables

vars == <<page, cart, orders, ops, call, csvText, traceabilityData, loaded,
          batchId, record, generated, apiKey, traceResult, traceError,
          formData, priceResult, priceError, priceLoading, priceCall,
          messages, isLoading, stream>>

appVars == <<page, cart, orders, ops, call>>

csvVars == <<csvText, traceabilityData, loaded>>

genVars == <<batchId, record, generated>>

traceVars == <<traceResult, traceError>>

priceVars == <<formData, priceResult, priceError, priceLoading, priceCall>>

chatVars == <<messages, isLoading, stream>>

serviceVars == <<apiKey, traceVars, priceVars, chatVars>>

(***************************************************************************)
(* Bounds of the model.                                                    *)
(***************************************************************************)
\* Math.random() is one of k / RandDen, k = 0 .. RandDen-1
RandDen == 480
\* number of lines of a CSV text
MaxLines == 2
\* cart and checkout operations (add, update, place order) in one session
MaxOps == 4
\* the quantities passed to addToCart are 1 .. MaxQuantity, those passed to
\* updateCartQuantity are -1 .. MaxQuantity
MaxQuantity == 2
\* Date.now() returns one of 0 .. MaxTime
MaxTime == 1
\* chat requests started in one session
MaxRequests == 2
\* chunks received from the chat streams of one session
MaxChunks == 2

(***************************************************************************)
(* null / a value                                                          *)
(***************************************************************************)
Null == <<>>

Some(v) == <<v>>

Min(S) == CHOOSE x \in S : \A y \in S : x <= y

(***************************************************************************)
(* Characters                                                              *)
(***************************************************************************)
\* U+FEFF
BOM == "BOM"

Letters ==
    {"a","b","c","d","e","f","g","h","i","j","k","l","m",
     "n","o","p","q","r","s","t","u","v","w","x","y","z",
     "A","B","C","D","E","F","G","H","I","J","K","L","M",
     "N","O","P","Q","R","S","T","U","V","W","X","Y","Z"}

Digits == {"0","1","2","3","4","5","6","7","8","9"}

\* the characters matched by \s and removed by String.prototype.trim
\* (both include U+FEFF); "\n" never occurs inside a line
Whitespace == {" ", "\t", "\r", "\n", BOM}

DigitValue(c) ==
    CASE c = "0" -> 0 [] c = "1" -> 1 [] c = "2" -> 2 [] c = "3" -> 3
      [] c = "4" -> 4 [] c = "5" -> 5 [] c = "6" -> 6 [] c = "7" -> 7
      [] c = "8" -> 8 [] c = "9" -> 9

\* Number("dddd")
ToNumber(ds) ==
    LET RECURSIVE val(_)
        val(n) == IF n = 0 THEN 0 ELSE 10 * val(n - 1) + DigitValue(ds[n])
    IN val(Len(ds))

\* s.substring(from - 1), 1-based
Substring(s, from) == SubSeq(s, from, Len(s))

\* s.startsWith(prefix)
StartsWith(s, prefix) ==
    /\ Len(s) >= Len(prefix)
    /\ SubSeq(s, 1, Len(prefix)) = prefix

\* s.startsWith(prefix, at - 1), 1-based
StartsWithAt(s, prefix, at) ==
    /\ at + Len(prefix) - 1 <= Len(s)
    /\ SubSeq(s, at, at + Len(prefix) - 1) = prefix

\* String.prototype.trim
Trim(s) ==
    LET keep == {i \in 1..Len(s) : s[i] \notin Whitespace}
    IN IF keep = {} THEN <<>>
       ELSE SubSeq(s, Min(keep), CHOOSE i \in keep : \A j \in keep : j <= i)

\* s.replace(/\s/g, '')
RemoveWhitespace(s) == SelectSeq(s, LAMBDA c : c \notin Whitespace)

\* s.split('\n')
RECURSIVE Split(_)
Split(s) ==
    LET nl == {i \in 1..Len(s) : s[i] = "\n"}
    IN IF nl = {} THEN <<s>>
       ELSE <<SubSeq(s, 1, Min(nl) - 1)>> \o Split(Substring(s, Min(nl) + 1))

\* the first index >= i of s whose character is not in class (Len(s)+1 if none)
RunEnd(s, i, class) ==
    Min({j \in i..Len(s) : s[j] \notin class} \cup {Len(s) + 1})

(***************************************************************************)
(* JavaScript Date, local calendar fields (ECMAScript 21.4.1)              *)
(***************************************************************************)
\* days from 1970-01-01 to January 1 of year y
DayFromYear(y) ==
    365 * (y - 1970) + ((y - 1969) \div 4) - ((y - 1901) \div 100)
        + ((y - 1601) \div 400)

InLeapYear(y) == (y % 4 = 0) /\ ((y % 100 # 0) \/ (y % 400 = 0))

\* days of the year before month m (0 = January) begins
DaysBeforeMonth(y, m) ==
    <<0, 31, 59, 90, 120, 151, 181, 212, 243, 273, 304, 334, 365>>[m + 1]
        + (IF InLeapYear(y) /\ m >= 2 THEN 1 ELSE 0)

\* Date.prototype.getFullYear
getFullYear(t) ==
    LET guess == 1970 + ((t * 400) \div 146097)
    IN CHOOSE y \in (guess - 1)..(guess + 1) :
           DayFromYear(y) <= t /\ t < DayFromYear(y + 1)

\* Date.prototype.getMonth (0 = January)
getMonth(t) ==
    LET y == getFullYear(t)
        d == t - DayFromYear(y)
    IN CHOOSE m \in 0..11 :
           DaysBeforeMonth(y, m) <= d /\ d < DaysBeforeMonth(y, m + 1)

\* Date.prototype.getDate (day of the month, 1-based)
getDate(t) ==
    LET y == getFullYear(t)
    IN t - DayFromYear(y) - DaysBeforeMonth(y, getMonth(t)) + 1

\* MakeDay(year, month, date): date may lie outside the month
MakeDay(y, m, dt) == DayFromYear(y) + DaysBeforeMonth(y, m) + dt - 1

\* the date argument taken as a number of days after the first of the month
NewDateDayOffset(year, m, dt) ==
    MakeDay(IF year \in 0..99 THEN 1900 + year ELSE year, m, dt + 1)

\* the year taken as it is written
NewDateLiteralYear(year, m, dt) == MakeDay(year, m, dt)

\* new Date(year, month, date): a year 0..99 means 1900 + year
NewDate(year, m, dt) ==
    MakeDay(IF year \in 0..99 THEN 1900 + year ELSE year, m, dt)

\* date.setDate(dt): the same year and month, day dt (which may overflow)
setDate(t, dt) == MakeDay(getFullYear(t), getMonth(t), dt)

months ==
    <<"January", "February", "March", "April", "May", "June", "July",
      "August", "September", "October", "November", "December">>

\* `${months[date.getMonth()]} ${date.getDate()}, ${date.getFullYear()}`
formatDate(t) ==
    [month |-> months[getMonth(t) + 1], day |-> getDate(t),
     year |-> getFullYear(t)]

(***************************************************************************)
(* Reference tables of the DataProcessor.  A lookup obj[key] also finds    *)
(* the members every object inherits from Object.prototype; of those,      *)
(* the ones a key made of letters can name are functions, whose .name is   *)
(* a string and whose other properties are undefined.                      *)
(***************************************************************************)
SonaMasoori == <<"S", "o", "n", "a", "M", "a", "s", "o", "o", "r", "i">>

BrokenRice == <<"B", "r", "o", "k", "e", "n", " ", "R", "i", "c", "e">>

JaiSriRam == <<"J", "a", "i", "S", "r", "i", "R", "a", "m">>

Basmathi == <<"B", "a", "s", "m", "a", "t", "h", "i">>

Chattisgarh == <<"C", "h", "a", "t", "t", "i", "s", "g", "a", "r", "h">>

Miryalaguda == <<"M", "i", "r", "y", "a", "l", "a", "g", "u", "d", "a">>

Kakinada == <<"K", "a", "k", "i", "n", "a", "d", "a">>

Warangal == <<"W", "a", "r", "a", "n", "g", "a", "l">>

\* Object.prototype members a letters-only key can name, with their .name
InheritedName(key) ==
    CASE key = <<"c", "o", "n", "s", "t", "r", "u", "c", "t", "o", "r">>
             -> Some("Object")
      [] key = <<"t", "o", "S", "t", "r", "i", "n", "g">>
             -> Some("toString")
      [] key = <<"v", "a", "l", "u", "e", "O", "f">>
             -> Some("valueOf")
      [] key = <<"h", "a", "s", "O", "w", "n", "P", "r", "o", "p", "e", "r",
                 "t", "y">>
             -> Some("hasOwnProperty")
      [] key = <<"i", "s", "P", "r", "o", "t", "o", "t", "y", "p", "e", "O",
                 "f">>
             -> Some("isPrototypeOf")
      [] key = <<"t", "o", "L", "o", "c", "a", "l", "e", "S", "t", "r", "i",
                 "n", "g">>
             -> Some("toLocaleString")
      [] key = <<"p", "r", "o", "p", "e", "r", "t", "y", "I", "s", "E", "n",
                 "u", "m", "e", "r", "a", "b", "l", "e">>
             -> Some("propertyIsEnumerable")
      [] OTHER -> Null

\* farmDefinitions[key]  (mapEmbedUrl is carried as the key it belongs to)
farmDefinitions(key) ==
    CASE key = Chattisgarh
             -> Some([name |-> "Verma Agri-Group, Raipur", mapEmbedUrl |-> key])
      [] key = Miryalaguda
             -> Some([name |-> "Reddy Organic Farms, Nalgonda", mapEmbedUrl |-> key])
      [] key = Kakinada
             -> Some([name |-> "Coastal Paddy Fields, East Godavari", mapEmbedUrl |-> key])
      [] key = Warangal
             -> Some([name |-> "Kakatiya Growers Co-op, Warangal", mapEmbedUrl |-> key])
      [] InheritedName(key) # Null
             -> Some([name |-> InheritedName(key)[1], mapEmbedUrl |-> <<>>])
      [] OTHER -> Null

\* plantDefinitions[key]
plantDefinitions(key) ==
    CASE key = Chattisgarh -> Some([facility |-> "MKRM Plant #1"])
      [] key = Miryalaguda -> Some([facility |-> "MKRM Plant #2"])
      [] key = Kakinada -> Some([facility |-> "MKRM Plant #3"])
      [] key = Warangal -> Some([facility |-> "MKRM Plant #4"])
      [] InheritedName(key) # Null -> Some([facility |-> "undefined"])
      [] OTHER -> Null

\* riceTypeDefinitions[key]
riceTypeDefinitions(key) ==
    CASE key = SonaMasoori
             -> Some([name |-> "Sona Masoori Rice", grade |-> "Premium Quality"])
      [] key = BrokenRice
             -> Some([name |-> "Broken White Rice", grade |-> "Standard Grade"])
      [] key = JaiSriRam
             -> Some([name |-> "Jai Sri Ram Premium Rice", grade |-> "Superior Grade"])
      [] key = Basmathi
             -> Some([name |-> "Extra-Long Grain Basmati", grade |-> "USDA Grade A"])
      [] InheritedName(key) # Null
             -> Some([name |-> InheritedName(key)[1], grade |-> "undefined"])
      [] OTHER -> Null

certificationDefinitions ==
    <<"100% Organic, FSSAI License #123-456-7890",
      "Fair Trade Certified, ISO 9001:2015",
      "Non-GMO Project Verified, FSSAI #987-654-3210",
      "Gluten-Free Certified, ISO 22000">>

\* a || b for a lookup result a
OrElse(a, b) == IF a # Null THEN a ELSE b

(***************************************************************************)
(* getRandom and generateTraceabilityRecord                                *)
(***************************************************************************)
\* the values Math.random() takes in the model: k / RandDen
RandomNumerators == 0..(RandDen - 1)

\* (Math.random() * (max - min) + min).toFixed(decimals), for Math.random()
\* = k / RandDen.  min and max are given in tenths; the result is in units of
\* 10^-decimals (an integer for decimals = 0, tenths for decimals = 1).
\* toFixed rounds to the nearest such unit, the larger one on a tie.
getRandom(minTenths, maxTenths, decimals, k) ==
    LET scale == IF decimals = 0 THEN 10 ELSE 1
        num == k * (maxTenths - minTenths) + minTenths * RandDen
    IN (2 * num + RandDen * scale) \div (2 * RandDen * scale)

\* batchId.match(/MKRM-([a-zA-Z\s]+)(\d+)-(\d{4})-([a-zA-Z]+)(\d+)/) tried at
\* position p only.  The classes of adjacent parts are disjoint, so each
\* greedy run is the maximal run and no backtracking finds another match.
MatchAt(s, p) ==
    LET riceFrom == p + 5
        riceTo == RunEnd(s, riceFrom, Letters \cup Whitespace)
        seqTo == RunEnd(s, riceTo, Digits)
        yearFrom == seqTo + 1
        yearTo == yearFrom + 4
        locFrom == yearTo + 1
        locTo == RunEnd(s, locFrom, Letters)
        endTo == RunEnd(s, locTo, Digits)
    IN IF /\ StartsWithAt(s, <<"M", "K", "R", "M", "-">>, p)
          /\ riceTo > riceFrom
          /\ seqTo > riceTo
          /\ StartsWithAt(s, <<"-">>, seqTo)
          /\ yearTo - 1 <= Len(s)
          /\ \A i \in yearFrom..(yearTo - 1) : s[i] \in Digits
          /\ StartsWithAt(s, <<"-">>, yearTo)
          /\ locTo > locFrom
          /\ endTo > locTo
       THEN Some([riceKey |-> SubSeq(s, riceFrom, riceTo - 1),
                  year |-> SubSeq(s, yearFrom, yearTo - 1),
                  locationKey |-> SubSeq(s, locFrom, locTo - 1)])
       ELSE Null

\* String.prototype.match with an unanchored pattern: the leftmost match
Match(s) ==
    LET starts == {p \in 1..Len(s) : MatchAt(s, p) # Null}
    IN IF starts = {} THEN Null ELSE MatchAt(s, Min(starts))

\* the harvest one day further back
harvestDateOneDayEarlier(millingDate, harvestOffset) ==
    setDate(millingDate, getDate(millingDate) - harvestOffset - 1)

\* harvestDate.setDate(harvestDate.getDate() - parseInt(getRandom(20, 45, 0)))
harvestDateOf(millingDate, harvestOffset) ==
    setDate(millingDate, getDate(millingDate) - harvestOffset)

\* the departure left on the milling day
departureDateSameDay(millingDate) ==
    setDate(millingDate, getDate(millingDate))

\* departureDate.setDate(departureDate.getDate() + 1)
departureDateOf(millingDate) ==
    setDate(millingDate, getDate(millingDate) + 1)

\* arrivalDate.setDate(arrivalDate.getDate() + parseInt(getRandom(2, 4, 0)))
arrivalDateOf(departureDate, arrivalOffset) ==
    setDate(departureDate, getDate(departureDate) + arrivalOffset)

\* packagingDate.setDate(packagingDate.getDate() + 1)
packagingDateOf(arrivalDate) ==
    setDate(arrivalDate, getDate(arrivalDate) + 1)

\* the grain length decided on the key with its whitespace removed
avgGrainLengthOfCleanKey(riceKey, k) ==
    IF RemoveWhitespace(riceKey) = Basmathi
    THEN [unit |-> "mm", tenths |-> getRandom(70, 84, 1, k)]
    ELSE [unit |-> "N/A", tenths |-> 0]

\* riceKey === 'Basmathi' ? `${getRandom(7.0, 8.4)}mm` : 'N/A'
avgGrainLengthOf(riceKey, k) ==
    IF riceKey = Basmathi
    THEN [unit |-> "mm", tenths |-> getRandom(70, 84, 1, k)]
    ELSE [unit |-> "N/A", tenths |-> 0]

\* the certification chosen by the month of the milling date
certificationOfMonth(millingDate) ==
    certificationDefinitions[
        (getMonth(millingDate) % Len(certificationDefinitions)) + 1]

\* certificationDefinitions[millingDate.getDate() %
\*                          certificationDefinitions.length]
\* (the list of the model is indexed from 1)
certificationOf(millingDate) ==
    certificationDefinitions[
        (getDate(millingDate) % Len(certificationDefinitions)) + 1]

\* generateTraceabilityRecord(batchId).  rnd holds the Math.random() outcomes
\* (numerators over RandDen) of the getRandom calls, in the order of the calls.
generateTraceabilityRecord(id, rnd) ==
    LET parts == Match(id)
        riceKey == parts[1].riceKey
        year == ToNumber(parts[1].year)
        locationKey == parts[1].locationKey
        riceInfo ==
            OrElse(riceTypeDefinitions(RemoveWhitespace(riceKey)),
              OrElse(riceTypeDefinitions(riceKey),
                Some([name |-> "Standard Rice", grade |-> "Standard"])))[1]
        farmInfo ==
            OrElse(farmDefinitions(locationKey),
                   Some([name |-> "Unknown Farm", mapEmbedUrl |-> <<>>]))[1]
        plantInfo ==
            OrElse(plantDefinitions(locationKey),
                   Some([facility |-> "MKRM Plant #0"]))[1]
        randomDayOfYear == getRandom(600, 3000, 0, rnd.dayOfYear)
        millingDate == NewDate(year, 0, randomDayOfYear)
        harvestDate ==
            harvestDateOf(millingDate, getRandom(200, 450, 0, rnd.harvest))
        departureDate == departureDateOf(millingDate)
        arrivalDate ==
            arrivalDateOf(departureDate, getRandom(20, 40, 0, rnd.arrival))
        packagingDate == packagingDateOf(arrivalDate)
    IN IF parts = Null THEN Null
       ELSE Some(
         [batchId |-> id,
          productName |-> riceInfo.name,
          farm |-> [name |-> farmInfo.name,
                    mapEmbedUrl |-> farmInfo.mapEmbedUrl,
                    harvestDate |-> formatDate(harvestDate)],
          milling |-> [date |-> formatDate(millingDate),
                       facility |-> <<plantInfo.facility, locationKey>>],
          logistics |-> [mode |-> "GPS-tracked, Temperature-controlled truck",
                         departure |-> formatDate(departureDate),
                         arrival |-> formatDate(arrivalDate)],
          packagingAndStorage |->
              [packagingDate |-> formatDate(packagingDate),
               material |-> "5-ply BOPP woven bag, Nitrogen flushed",
               warehouse |-> <<"MKRM Central Warehouse", locationKey>>,
               conditions |-> "Temp: < 18 C, Humidity: < 60%"],
          quality |-> [moisture |-> getRandom(125, 140, 1, rnd.moisture),
                       brokenGrains |-> getRandom(5, 45, 1, rnd.brokenGrains),
                       purity |-> getRandom(995, 999, 1, rnd.purity),
                       avgGrainLength |->
                           avgGrainLengthOf(riceKey, rnd.avgGrainLength),
                       grade |-> riceInfo.grade,
                       testedBy |-> "MKRM Central Quality Lab"],
          certifications |-> certificationOf(millingDate)])

(***************************************************************************)
(* processCsvData                                                          *)
(***************************************************************************)
\* acc[key] = value on a plain object
Put(acc, key, value) ==
    [k \in (DOMAIN acc) \cup {key} |-> IF k = key THEN value ELSE acc[k]]

\* the reducer with the record stored under the untrimmed line
reduceStepUntrimmedKey(acc, id, rnd) ==
    LET rec == generateTraceabilityRecord(Trim(id), rnd)
    IN IF rec # Null THEN Put(acc, id, rec[1]) ELSE acc

\* (acc, id) => { const record = generateTraceabilityRecord(id.trim());
\*                if (record) acc[id.trim()] = record; return acc; }
reduceStep(acc, id, rnd) ==
    LET rec == generateTraceabilityRecord(Trim(id), rnd)
    IN IF rec # Null THEN Put(acc, Trim(id), rec[1]) ELSE acc

\* csvText.split('\n').filter(id => id.trim() !== '' && !id.startsWith('http'))
\* after one leading U+FEFF is removed
batchIdListOf(text) ==
    LET stripped == IF Len(text) > 0 /\ text[1] = BOM
                    THEN Substring(text, 2) ELSE text
    IN SelectSeq(Split(stripped),
                 LAMBDA id : Trim(id) # <<>>
                             /\ ~StartsWith(id, <<"h", "t", "t", "p">>))

\* processCsvData(csvText); rnds[i] holds the random draws of the record of
\* the i-th line of batchIdList
processCsvData(text, rnds) ==
    LET batchIdList == batchIdListOf(text)
        RECURSIVE reduce(_)
        reduce(n) ==
            IF n = 0 THEN <<>>
            ELSE reduceStep(reduce(n - 1), batchIdList[n], rnds[n])
    IN reduce(Len(batchIdList))

(***************************************************************************)
(* The record synthesizer applied to one identifier.                       *)
(***************************************************************************)
MKRM == <<"M", "K", "R", "M", "-">>

\* MKRM-SonaMasoori23-2024-Chattisgarh8
IdSonaMasoori ==
    MKRM \o SonaMasoori \o <<"2", "3", "-", "2", "0", "2", "4", "-">>
         \o Chattisgarh \o <<"8">>

\* MKRM-Basmathi1-2023-Warangal2
IdBasmathi ==
    MKRM \o Basmathi \o <<"1", "-", "2", "0", "2", "3", "-">> \o Warangal
         \o <<"2">>

\* MKRM-Broken Rice7-0050-Kakinada1
IdBrokenRice ==
    MKRM \o BrokenRice \o <<"7", "-", "0", "0", "5", "0", "-">> \o Kakinada
         \o <<"1">>

\* MKRM-Basma thi5-2025-Nowhere3
IdSpacedBasmathi ==
    MKRM \o <<"B", "a", "s", "m", "a", " ", "t", "h", "i">>
         \o <<"5", "-", "2", "0", "2", "5", "-", "N", "o", "w", "h", "e", "r",
              "e", "3">>

\* xMKRM-JaiSriRam2-2024-Miryalaguda9y
IdEmbedded ==
    <<"x">> \o MKRM \o JaiSriRam \o <<"2", "-", "2", "0", "2", "4", "-">>
            \o Miryalaguda \o <<"9", "y">>

\* MKRM-A1-20245-B1
IdLongYear ==
    MKRM \o <<"A", "1", "-", "2", "0", "2", "4", "5", "-", "B", "1">>

\* MKRM-constructor1-1999-toString1
IdInherited ==
    MKRM \o <<"c", "o", "n", "s", "t", "r", "u", "c", "t", "o", "r", "1", "-",
              "1", "9", "9", "9", "-", "t", "o", "S", "t", "r", "i", "n", "g",
              "1">>

NotValid == <<"N", "O", "T", "V", "A", "L", "I", "D">>

GenInputs ==
    {IdSonaMasoori, IdBasmathi, IdBrokenRice, IdSpacedBasmathi, IdEmbedded,
     IdLongYear, IdInherited, NotValid}

\* one numerator for every distinct result of getRandom(min, max, decimals)
Outcomes(minTenths, maxTenths, decimals) ==
    {k \in RandomNumerators :
        \/ k = 0
        \/ getRandom(minTenths, maxTenths, decimals, k)
             # getRandom(minTenths, maxTenths, decimals, k - 1)}

DayOfYearOutcomes == Outcomes(600, 3000, 0)

HarvestOutcomes == Outcomes(200, 450, 0)

ArrivalOutcomes == Outcomes(20, 40, 0)

\* the lowest, the middle and the highest value of Math.random()
SampleNumerators == {0, RandDen \div 2, RandDen - 1}

\* every outcome of the three date draws (quality draws at their lowest), and
\* sampled quality draws (date draws sampled)
GenDraws ==
    [dayOfYear : DayOfYearOutcomes, harvest : HarvestOutcomes,
     arrival : ArrivalOutcomes, moisture : {0}, brokenGrains : {0},
     purity : {0}, avgGrainLength : {0}]
    \cup
    [dayOfYear : {0, RandDen - 1}, harvest : {0, RandDen - 1},
     arrival : {0, RandDen - 1}, moisture : SampleNumerators,
     brokenGrains : SampleNumerators, purity : SampleNumerators,
     avgGrainLength : SampleNumerators]

AppInit ==
    /\ page = "shop"
    /\ cart = <<>>
    /\ orders = <<>>
    /\ ops = 0
    /\ call = [op |-> "none", id |-> 0, n |-> 0]

CsvIdle ==
    /\ csvText = <<>>
    /\ traceabilityData = <<>>
    /\ loaded = "pending"

GenIdle ==
    /\ batchId = <<>>
    /\ record = Null
    /\ generated = FALSE

(***************************************************************************)
(* Initial state of the Traceability, PriceEstimator and Chatbot           *)
(* components                                                              *)
(***************************************************************************)
TraceIdle ==
    /\ traceResult = Null
    /\ traceError = ""

\* useState({ riceType: 'Sona Masoori Rice', quantity: 100, ... })
InitialFormData ==
    [riceType |-> "Sona Masoori Rice", quantity |-> 100,
     region |-> "Kakinada", season |-> "Kharif"]

PriceIdle ==
    /\ formData = InitialFormData
    /\ priceResult = Null
    /\ priceError = ""
    /\ priceLoading = FALSE
    /\ priceCall = Null

\* the text of the first message of the chat
GreetingText ==
    <<"H", "e", "l", "l", "o", "!", " ", "I", " ", "a", "m", " ",
      "M", "K", "R", "M", "'", "s", " ", "A", "I", " ", "a", "s",
      "s", "i", "s", "t", "a", "n", "t", ".", " ", "I", " ", "c",
      "a", "n", " ", "h", "e", "l", "p", " ", "y", "o", "u", " ",
      "w", "i", "t", "h", " ", "p", "r", "o", "d", "u", "c", "t",
      " ", "i", "n", "f", "o", "r", "m", "a", "t", "i", "o", "n",
      ",", " ", "o", "r", "d", "e", "r", " ", "t", "r", "a", "c",
      "k", "i", "n", "g", ",", " ", "a", "n", "d", " ", "m", "o",
      "r", "e", ".", " ", "H", "o", "w", " ", "c", "a", "n", " ",
      "I", " ", "h", "e", "l", "p", " ", "y", "o", "u", " ", "t",
      "o", "d", "a", "y", "?">>

\* useState([{ role: 'bot', text: "Hello! ...", sources: [] }])
InitialMessages == <<[role |-> "bot", text |-> GreetingText, sources |-> <<>>]>>

\* 'Sorry, I encountered an error. Please try again.'
ApologyText ==
    <<"S", "o", "r", "r", "y", ",", " ", "I", " ", "e", "n", "c",
      "o", "u", "n", "t", "e", "r", "e", "d", " ", "a", "n", " ",
      "e", "r", "r", "o", "r", ".", " ", "P", "l", "e", "a", "s",
      "e", " ", "t", "r", "y", " ", "a", "g", "a", "i", "n", ".">>

\* no chunk of a stream has been read
NoChunk == [text |-> <<>>, grounding |-> Null]

\* no sendMessage call is running.  pc is the position of the call,
\* accumulatedText, sources and chunk are its local variables, chunks counts
\* the chunks received in the session
NoStream ==
    [pc |-> "idle", accumulatedText |-> <<>>, sources |-> <<>>,
     chunk |-> NoChunk, chunks |-> 0]

ChatIdle ==
    /\ messages = InitialMessages
    /\ isLoading = FALSE
    /\ stream = NoStream

ServicesIdle ==
    /\ apiKey = Null
    /\ TraceIdle
    /\ PriceIdle
    /\ ChatIdle

InitGen ==
    /\ AppInit
    /\ ServicesIdle
    /\ CsvIdle
    /\ batchId \in GenInputs
    /\ record = Null
    /\ generated = FALSE

Generate ==
    /\ ~generated
    /\ \E rnd \in GenDraws : record' = generateTraceabilityRecord(batchId, rnd)
    /\ generated' = TRUE
    /\ UNCHANGED <<batchId, appVars, csvVars, serviceVars>>

NextGen == Generate

SpecGen == InitGen /\ [][NextGen]_vars

(***************************************************************************)
(* Calendar order of two formatted dates                                   *)
(***************************************************************************)
MonthNumber(name) == CHOOSE i \in 1..12 : months[i] = name

DateBefore(a, b) ==
    \/ a.year < b.year
    \/ a.year = b.year /\ MonthNumber(a.month) < MonthNumber(b.month)
    \/ a.year = b.year /\ a.month = b.month /\ a.day < b.day

\* C1: every record built from an identifier that matches the pattern has
\* harvestDate < millingDate < departure < arrival < packagingDate, strictly,
\* as calendar dates, whatever the random draws were.
C1_DatesChronological ==
    (generated /\ record # Null) =>
        LET r == record[1]
        IN /\ DateBefore(r.farm.harvestDate, r.milling.date)
           /\ DateBefore(r.milling.date, r.logistics.departure)
           /\ DateBefore(r.logistics.departure, r.logistics.arrival)
           /\ DateBefore(r.logistics.arrival,
                         r.packagingAndStorage.packagingDate)

\* a record whose harvest lies in the month before milling and whose
\* packaging lies in the month after it
C1_Witness ==
    /\ generated
    /\ record # Null
    /\ record[1].batchId = IdSonaMasoori
    /\ record[1].farm.harvestDate.month = "February"
    /\ record[1].milling.date = [month |-> "March", day |-> 30, year |-> 2024]
    /\ record[1].packagingAndStorage.packagingDate.month = "April"

\* the entries written in the variety table (src/index.tsx:57-62)
VarietyEntries ==
    [key \in {SonaMasoori, BrokenRice, JaiSriRam, Basmathi} |->
        CASE key = SonaMasoori
                 -> [name |-> "Sona Masoori Rice", grade |-> "Premium Quality"]
          [] key = BrokenRice
                 -> [name |-> "Broken White Rice", grade |-> "Standard Grade"]
          [] key = JaiSriRam
                 -> [name |-> "Jai Sri Ram Premium Rice",
                     grade |-> "Superior Grade"]
          [] key = Basmathi
                 -> [name |-> "Extra-Long Grain Basmati",
                     grade |-> "USDA Grade A"]]

\* the entries written in the farm and plant tables (src/index.tsx:45-56)
LocationEntries ==
    [key \in {Chattisgarh, Miryalaguda, Kakinada, Warangal} |->
        CASE key = Chattisgarh
                 -> [farm |-> "Verma Agri-Group, Raipur",
                     facility |-> "MKRM Plant #1"]
          [] key = Miryalaguda
                 -> [farm |-> "Reddy Organic Farms, Nalgonda",
                     facility |-> "MKRM Plant #2"]
          [] key = Kakinada
                 -> [farm |-> "Coastal Paddy Fields, East Godavari",
                     facility |-> "MKRM Plant #3"]
          [] key = Warangal
                 -> [farm |-> "Kakatiya Growers Co-op, Warangal",
                     facility |-> "MKRM Plant #4"]]

\* the descriptors the record of an identifier is to carry
DescriptorsResolved(rec, parts) ==
    LET stripped == RemoveWhitespace(parts.riceKey)
        variety ==
            IF stripped \in DOMAIN VarietyEntries THEN VarietyEntries[stripped]
            ELSE IF parts.riceKey \in DOMAIN VarietyEntries
                 THEN VarietyEntries[parts.riceKey]
                 ELSE [name |-> "Standard Rice", grade |-> "Standard"]
        location ==
            IF parts.locationKey \in DOMAIN LocationEntries
            THEN LocationEntries[parts.locationKey]
            ELSE [farm |-> "Unknown Farm", facility |-> "MKRM Plant #0"]
    IN /\ rec.productName = variety.name
       /\ rec.quality.grade = variety.grade
       /\ rec.farm.name = location.farm
       /\ rec.milling.facility[1] = location.facility

\* C12: the record's productName and grade are those of the variety table
\* entry of the varietyKey (looked up with and without its whitespace), or
\* 'Standard Rice' / 'Standard' when the key is not in the table; its farm
\* and milling facility are those of the locationKey's entries, or
\* 'Unknown Farm' / 'MKRM Plant #0' when the key is not in the tables.
C12_DescriptorResolution ==
    (generated /\ record # Null) =>
        DescriptorsResolved(record[1], Match(batchId)[1])

\* the same for the identifiers whose keys are not names of members that
\* every JavaScript object inherits
C12_ResolutionOfOrdinaryKeys ==
    (generated /\ record # Null /\ batchId # IdInherited) =>
        DescriptorsResolved(record[1], Match(batchId)[1])

(***************************************************************************)
(* Day arithmetic on formatted dates                                       *)
(***************************************************************************)
\* the number of the day a formatted date names, counted in the proleptic
\* Gregorian calendar from January 1 of year 0 (= 0)
DayNumber(date) ==
    LET y == date.year
        m == MonthNumber(date.month)
        leap == (y % 4 = 0) /\ ((y % 100 # 0) \/ (y % 400 = 0))
        before ==
            <<0, 31, 59, 90, 120, 151, 181, 212, 243, 273, 304, 334>>[m]
    IN 365 * y + ((y + 3) \div 4) - ((y + 99) \div 100) + ((y + 399) \div 400)
         + before + (IF leap /\ m > 2 THEN 1 ELSE 0) + (date.day - 1)

\* days from a to b
DaysBetween(a, b) == DayNumber(b) - DayNumber(a)

JanuaryFirst(y) == [month |-> "January", day |-> 1, year |-> y]

\* the year field of the identifier of the record
YearField == ToNumber(Match(batchId)[1].year)

\* C19 as stated: the milling date is January 1 of the identifier's year Y
\* plus d days with 60 <= d < 300.
C19_MillingOffsetHalfOpen ==
    (generated /\ record # Null) =>
        DaysBetween(JanuaryFirst(YearField), record[1].milling.date)
            \in 60..299

\* C19 (amended): the milling date is the d-th day of its year, January 1
\* plus d - 1 days, with 60 <= d <= 300; the year is the identifier's year Y
\* when Y >= 100 and 1900 + Y when Y is 0000..0099.
C19_MillingDayOfYear ==
    (generated /\ record # Null) =>
        LET y == IF YearField < 100 THEN 1900 + YearField ELSE YearField
            d == DaysBetween(JanuaryFirst(y), record[1].milling.date) + 1
        IN d \in 60..300

\* the earliest milling date of a leap year: day 60 is February 29
C19_Witness ==
    /\ generated
    /\ record # Null
    /\ batchId = IdSonaMasoori
    /\ record[1].milling.date = [month |-> "February", day |-> 29, year |-> 2024]

\* the latest milling date of a year 00YY: day 300 of 1950 is October 27
C19_WitnessLatest ==
    /\ generated
    /\ record # Null
    /\ batchId = IdBrokenRice
    /\ record[1].milling.date = [month |-> "October", day |-> 27, year |-> 1950]

\* C20 as stated: harvest is h days before milling with 20 <= h < 45,
\* departure 1 day after milling, arrival a days after departure with
\* 2 <= a < 4, packaging 1 day after arrival.
C20_GapsHalfOpen ==
    (generated /\ record # Null) =>
        LET r == record[1]
        IN /\ DaysBetween(r.farm.harvestDate, r.milling.date) \in 20..44
           /\ DaysBetween(r.milling.date, r.logistics.departure) = 1
           /\ DaysBetween(r.logistics.departure, r.logistics.arrival) \in 2..3
           /\ DaysBetween(r.logistics.arrival,
                          r.packagingAndStorage.packagingDate) = 1

\* C20 (amended): harvest is h days before milling with 20 <= h <= 45,
\* departure exactly 1 day after milling, arrival a days after departure
\* with 2 <= a <= 4, packaging exactly 1 day after arrival.
C20_GapsInclusive ==
    (generated /\ record # Null) =>
        LET r == record[1]
        IN /\ DaysBetween(r.farm.harvestDate, r.milling.date) \in 20..45
           /\ DaysBetween(r.milling.date, r.logistics.departure) = 1
           /\ DaysBetween(r.logistics.departure, r.logistics.arrival) \in 2..4
           /\ DaysBetween(r.logistics.arrival,
                          r.packagingAndStorage.packagingDate) = 1

\* a record with the largest gaps: harvest 45 days before milling, arrival
\* 4 days after departure, across the February of a leap year
C20_Witness ==
    /\ generated
    /\ record # Null
    /\ record[1].milling.date = [month |-> "March", day |-> 1, year |-> 2024]
    /\ record[1].farm.harvestDate = [month |-> "January", day |-> 16, year |-> 2024]
    /\ record[1].logistics.departure = [month |-> "March", day |-> 2, year |-> 2024]
    /\ record[1].logistics.arrival = [month |-> "March", day |-> 6, year |-> 2024]
    /\ record[1].packagingAndStorage.packagingDate =
           [month |-> "March", day |-> 7, year |-> 2024]

\* C21: the certification of a record is the entry of the four-element
\* certification list at index (day-of-month of the milling date) mod 4
\* (counted from 0), so it depends on the milling day-of-month only
C21_CertificationByMillingDay ==
    /\ Len(certificationDefinitions) = 4
    /\ (generated /\ record # Null) =>
           LET index == record[1].milling.date.day % 4
           IN /\ index \in 0..3
              /\ record[1].certifications =
                     <<"100% Organic, FSSAI License #123-456-7890",
                       "Fair Trade Certified, ISO 9001:2015",
                       "Non-GMO Project Verified, FSSAI #987-654-3210",
                       "Gluten-Free Certified, ISO 22000">>[index + 1]

\* a record milled on a 31st: 31 mod 4 = 3, the last entry of the list
C21_Witness ==
    /\ generated
    /\ record # Null
    /\ record[1].milling.date = [month |-> "March", day |-> 31, year |-> 2024]
    /\ record[1].certifications = "Gluten-Free Certified, ISO 22000"

\* the record carries a measured grain length
Measured == record[1].quality.avgGrainLength.unit = "mm"

\* the record is named by the Basmati descriptor
NamedBasmati == record[1].productName = "Extra-Long Grain Basmati"

\* the varietyKey of the identifier of the record
VarietyKey == Match(batchId)[1].riceKey

C22_WitnessMeasured ==
    /\ generated
    /\ record # Null
    /\ batchId = IdBasmathi
    /\ record[1].quality.avgGrainLength = [unit |-> "mm", tenths |-> 84]

\* the years of the five dates of the record
DateYears ==
    { record[1].farm.harvestDate.year, record[1].milling.date.year,
      record[1].logistics.departure.year, record[1].logistics.arrival.year,
      record[1].packagingAndStorage.packagingDate.year }

C27_WitnessEarliest ==
    /\ generated
    /\ record # Null
    /\ batchId = IdSonaMasoori
    /\ record[1].farm.harvestDate = [month |-> "January", day |-> 15, year |-> 2024]

(***************************************************************************)
(* The catalog load: fetchTraceData                                        *)
(***************************************************************************)
\* the lines a CSV text is made of
CsvLines ==
    { IdSonaMasoori,
      IdSonaMasoori \o <<"\r">>,
      <<" ", " ">> \o IdBasmathi \o <<" ", "\r">>,
      <<>>,
      <<" ", "\t">>,
      <<"h", "t", "t", "p", ":", "/", "/", "x", "/">> \o IdBasmathi,
      <<" ", "h", "t", "t", "p", ":", "/", "/", "x", "/">> \o IdBrokenRice,
      IdEmbedded,
      IdLongYear,
      NotValid }

\* lines joined by "\n"
RECURSIVE Join(_)
Join(lines) ==
    IF Len(lines) = 1 THEN lines[1]
    ELSE lines[1] \o <<"\n">> \o Join(Tail(lines))

\* texts of 1..MaxLines lines, behind zero, one or two U+FEFF
CsvInputs ==
    {bom \o Join(lines) :
        bom \in {<<>>, <<BOM>>, <<BOM, BOM>>},
        lines \in UNION {[1..n -> CsvLines] : n \in 1..MaxLines}}

\* the draws of one record: all lowest or all highest
CsvDraws ==
    {[dayOfYear |-> k, harvest |-> k, arrival |-> k, moisture |-> k,
      brokenGrains |-> k, purity |-> k, avgGrainLength |-> k] :
        k \in {0, RandDen - 1}}

InitCsv ==
    /\ AppInit
    /\ ServicesIdle
    /\ GenIdle
    /\ csvText \in CsvInputs
    /\ traceabilityData = <<>>
    /\ loaded = "pending"

\* the effect run again after the catalog was set
FetchRepeats ==
    /\ loaded # "failed"
    /\ \E rnds \in [1..Len(batchIdListOf(csvText)) -> CsvDraws] :
           traceabilityData' = processCsvData(csvText, rnds)
    /\ loaded' = "done"
    /\ UNCHANGED <<csvText, appVars, genVars, serviceVars>>

\* fetch and response.text() succeed: setTraceabilityData(processCsvData(text))
FetchSucceeds ==
    /\ loaded = "pending"
    /\ \E rnds \in [1..Len(batchIdListOf(csvText)) -> CsvDraws] :
           traceabilityData' = processCsvData(csvText, rnds)
    /\ loaded' = "done"
    /\ UNCHANGED <<csvText, appVars, genVars, serviceVars>>

\* fetch or response.text() rejects: the catch block only logs
FetchFails ==
    /\ loaded = "pending"
    /\ loaded' = "failed"
    /\ UNCHANGED <<csvText, traceabilityData, appVars, genVars, serviceVars>>

NextCsv == FetchSucceeds \/ FetchFails

SpecCsv == InitCsv /\ [][NextCsv]_vars

\* the lines of a text: the maximal stretches without "\n"
LinesOf(text) ==
    {SubSeq(text, i, j - 1) : <<i, j>> \in
        {ij \in (1..(Len(text) + 1)) \X (1..(Len(text) + 1)) :
            /\ ij[1] <= ij[2]
            /\ ij[1] = 1 \/ text[ij[1] - 1] = "\n"
            /\ ij[2] = Len(text) + 1 \/ text[ij[2]] = "\n"
            /\ \A k \in ij[1]..(ij[2] - 1) : text[k] # "\n"}}

\* the text without one leading U+FEFF
WithoutBom(text) ==
    IF text # <<>> /\ Head(text) = BOM THEN Tail(text) ELSE text

\* a line that is neither blank nor begins with http, and parses
ContributingLines(text) ==
    {l \in LinesOf(WithoutBom(text)) :
        /\ \E i \in 1..Len(l) : l[i] \notin Whitespace
        /\ ~(Len(l) >= 4 /\ l[1] = "h" /\ l[2] = "t" /\ l[3] = "t" /\ l[4] = "p")
        /\ Match(Trim(l)) # Null}

\* C10: the mapping built by processCsvData has exactly one entry per
\* distinct trimmed line that is not blank, does not begin with http and
\* parses as a batch identifier, and that entry is the line's record; blank
\* lines, http lines and lines that do not parse (NOTVALID) leave no entry
\* and do not disturb the entries of the other lines.
C10_CatalogOfParsedLines ==
    (loaded = "done") =>
        /\ DOMAIN traceabilityData = {Trim(l) : l \in ContributingLines(csvText)}
        /\ \A key \in DOMAIN traceabilityData :
               traceabilityData[key].batchId = key

\* a text with a padded identifier line and a NOTVALID line: one entry
C10_Witness ==
    /\ loaded = "done"
    /\ csvText = <<BOM>> \o NotValid \o <<"\n", " ", " ">> \o IdBasmathi
                         \o <<" ", "\r">>
    /\ DOMAIN traceabilityData = {IdBasmathi}

\* the whole string s has the form MKRM-<letters/spaces><digits>-<4 digits>-
\* <letters><digits>, with nothing before or after it
IsIdentifier(s) ==
    LET riceTo == RunEnd(s, 6, Letters \cup Whitespace)
        seqTo == RunEnd(s, riceTo, Digits)
        locFrom == seqTo + 6
        locTo == RunEnd(s, locFrom, Letters)
        endTo == RunEnd(s, locTo, Digits)
    IN /\ StartsWith(s, MKRM)
       /\ riceTo > 6
       /\ seqTo > riceTo
       /\ StartsWithAt(s, <<"-">>, seqTo)
       /\ seqTo + 4 <= Len(s)
       /\ \A i \in (seqTo + 1)..(seqTo + 4) : s[i] \in Digits
       /\ StartsWithAt(s, <<"-">>, seqTo + 5)
       /\ locTo > locFrom
       /\ endTo > locTo
       /\ endTo = Len(s) + 1

\* C11: every key of the catalog is, as a whole, an identifier of the form
\* MKRM-<letters/spaces><digits>-<4-digit year>-<letters><digits>; a line
\* with extra characters around an identifier, or with a longer year, has
\* no record.
C11_KeysAreWholeIdentifiers ==
    (loaded = "done") =>
        \A key \in DOMAIN traceabilityData : IsIdentifier(key)

\* the part of C11 the code keeps: a year of more than four digits fails
C11_LongYearHasNoRecord ==
    (loaded = "done") => IdLongYear \notin DOMAIN traceabilityData

(***************************************************************************)
(* App: products, cart, checkout, order history                            *)
(***************************************************************************)
PRODUCTS ==
    <<[id |-> 1, name |-> "Sona Masoori Rice", priceINR |-> 5800],
      [id |-> 2, name |-> "Broken White Rice", priceINR |-> 3200],
      [id |-> 3, name |-> "Jai Sri Ram Premium Rice", priceINR |-> 6900],
      [id |-> 4, name |-> "Extra-Long Grain Basmati", priceINR |-> 11500]>>

\* { ...product, quantity }
cartLine(product, quantity) ==
    [id |-> product.id, name |-> product.name, priceINR |-> product.priceINR,
     quantity |-> quantity]

\* addToCart without the lookup of an existing line
addToCartAlwaysAppends(prevCart, product, quantity) ==
    Append(prevCart, cartLine(product, quantity))

\* the updater addToCart passes to setCart
addToCart(prevCart, product, quantity) ==
    IF \E i \in DOMAIN prevCart : prevCart[i].id = product.id
    THEN [i \in DOMAIN prevCart |->
            IF prevCart[i].id = product.id
            THEN [prevCart[i] EXCEPT !.quantity = @ + quantity]
            ELSE prevCart[i]]
    ELSE Append(prevCart, cartLine(product, quantity))

\* updateCartQuantity removing a line only below zero
updateCartQuantityBelowZero(prevCart, productId, newQuantity) ==
    IF newQuantity < 0
    THEN SelectSeq(prevCart, LAMBDA item : item.id # productId)
    ELSE [i \in DOMAIN prevCart |->
            IF prevCart[i].id = productId
            THEN [prevCart[i] EXCEPT !.quantity = newQuantity]
            ELSE prevCart[i]]

\* the updater updateCartQuantity passes to setCart
updateCartQuantity(prevCart, productId, newQuantity) ==
    IF newQuantity <= 0
    THEN SelectSeq(prevCart, LAMBDA item : item.id # productId)
    ELSE [i \in DOMAIN prevCart |->
            IF prevCart[i].id = productId
            THEN [prevCart[i] EXCEPT !.quantity = newQuantity]
            ELSE prevCart[i]]

\* cart.reduce((sum, item) => sum + item.priceINR * item.quantity, 0)
subtotalOf(c) ==
    LET RECURSIVE reduce(_)
        reduce(n) ==
            IF n = 0 THEN 0
            ELSE reduce(n - 1) + c[n].priceINR * c[n].quantity
    IN reduce(Len(c))

\* taxes at 15 %
taxesAtFifteenPercent(subtotal) == (subtotal * 15) \div 100

\* subtotal * 0.18.  Every price is a multiple of 50, so the subtotal is one
\* too and the product is a whole number, which binary64 arithmetic yields
\* exactly.
taxesOf(subtotal) == (subtotal * 18) \div 100

\* new Date().toLocaleDateString('en-GB') at clock reading t (milliseconds)
localeDate(t) ==
    LET day == t \div 86400000
    IN [day |-> getDate(day), month |-> getMonth(day) + 1,
        year |-> getFullYear(day)]

\* the newOrder object of placeOrder, built at clock reading t
newOrder(c, orderDetails, t) ==
    [id |-> <<"MKRM-", t>>,
     date |-> localeDate(t),
     items |-> c,
     subtotal |-> subtotalOf(c),
     taxes |-> taxesOf(subtotalOf(c)),
     total |-> subtotalOf(c) + taxesOf(subtotalOf(c)),
     shippingDetails |-> orderDetails]

\* the history with the new order put last
ordersWithNewLast(prevOrders, order) == Append(prevOrders, order)

\* the history replaced by the new order
ordersReplaced(prevOrders, order) == <<order>>

\* prevOrders => [newOrder, ...prevOrders]
ordersAfterPlaceOrder(prevOrders, order) == <<order>> \o prevOrders

\* the cart left as it was
cartKept(c) == c

\* setCart([])
cartAfterPlaceOrder(c) == <<>>

\* cart.reduce((count, item) => count + item.quantity, 0)
cartCount(c) ==
    LET RECURSIVE reduce(_)
        reduce(n) == IF n = 0 THEN 0 ELSE reduce(n - 1) + c[n].quantity
    IN reduce(Len(c))

\* the readings Date.now() can return after the orders so far were placed
ClockReadings ==
    (IF orders = <<>> THEN 0 ELSE orders[1].id[2])..MaxTime

\* the shipping form, once every required field is filled
CustomerDetails ==
    {[name |-> "Ramesh Kumar", email |-> "ramesh@example.com",
      city |-> "Kakinada"]}

\* placeOrder(orderDetails) at clock reading t: setOrders, setCart and
\* setPage are called in one event handler and take effect in one render
placeOrder(orderDetails, t) ==
    /\ orders' = ordersAfterPlaceOrder(orders, newOrder(cart, orderDetails, t))
    /\ cart' = cartAfterPlaceOrder(cart)
    /\ page' = "orders"

(***************************************************************************)
(* The cart operations applied to arbitrary arguments                      *)
(***************************************************************************)
\* products at the prices of the specification's example
OpsProducts ==
    {[id |-> 1, name |-> "Rice A", priceINR |-> 100],
     [id |-> 2, name |-> "Rice B", priceINR |-> 50]}

\* product ids passed to updateCartQuantity; no product has id 3
OpsProductIds == {1, 2, 3}

InitOps ==
    /\ AppInit
    /\ ServicesIdle
    /\ CsvIdle
    /\ GenIdle

OpAddToCart(product, quantity) ==
    /\ ops < MaxOps
    /\ cart' = addToCart(cart, product, quantity)
    /\ ops' = ops + 1
    /\ call' = [op |-> "addToCart", id |-> product.id, n |-> quantity]
    /\ UNCHANGED <<page, orders, csvVars, genVars, serviceVars>>

OpUpdateCartQuantity(productId, newQuantity) ==
    /\ ops < MaxOps
    /\ cart' = updateCartQuantity(cart, productId, newQuantity)
    /\ ops' = ops + 1
    /\ call' = [op |-> "updateCartQuantity", id |-> productId,
                n |-> newQuantity]
    /\ UNCHANGED <<page, orders, csvVars, genVars, serviceVars>>

\* placeOrder; its only caller, Checkout, renders the form for a non-empty
\* cart only
OpPlaceOrder(orderDetails, t) ==
    /\ ops < MaxOps
    /\ cart # <<>>
    /\ placeOrder(orderDetails, t)
    /\ ops' = ops + 1
    /\ call' = [op |-> "placeOrder", id |-> 0, n |-> 0]
    /\ UNCHANGED <<csvVars, genVars, serviceVars>>

NextOps ==
    \/ \E product \in OpsProducts, quantity \in 1..MaxQuantity :
           OpAddToCart(product, quantity)
    \/ \E productId \in OpsProductIds, newQuantity \in (-1)..MaxQuantity :
           OpUpdateCartQuantity(productId, newQuantity)
    \/ \E orderDetails \in CustomerDetails, t \in ClockReadings :
           OpPlaceOrder(orderDetails, t)

SpecOps == InitOps /\ [][NextOps]_vars

(***************************************************************************)
(* The App as the pages drive it                                           *)
(***************************************************************************)
\* the pages the header links to (the logo and the footer link to 'shop')
HeaderPages == {"shop", "trace", "estimate", "convert", "orders", "cart"}

Init ==
    /\ AppInit
    /\ ServicesIdle
    /\ CsvIdle
    /\ GenIdle

\* Header / Footer: onClick={() => setPage(p)}
Navigate(p) ==
    /\ page' = p
    /\ UNCHANGED <<cart, orders, ops, call, csvVars, genVars, serviceVars>>

\* Cart, empty: the 'Continue Shopping' button
ContinueShopping ==
    /\ page = "cart"
    /\ cart = <<>>
    /\ page' = "shop"
    /\ UNCHANGED <<cart, orders, ops, call, csvVars, genVars, serviceVars>>

\* Cart, not empty: the 'Proceed to Checkout' button
ProceedToCheckout ==
    /\ page = "cart"
    /\ cart # <<>>
    /\ page' = "checkout"
    /\ UNCHANGED <<cart, orders, ops, call, csvVars, genVars, serviceVars>>

\* OrderHistory, empty: the 'Start Shopping' button
StartShopping ==
    /\ page = "orders"
    /\ orders = <<>>
    /\ page' = "shop"
    /\ UNCHANGED <<cart, orders, ops, call, csvVars, genVars, serviceVars>>

\* ProductCard.handleAddToCart: addToCart(product, quantity), where the
\* card's quantity state is 1 and is never set
HandleAddToCart(product) ==
    /\ page = "shop"
    /\ ops < MaxOps
    /\ cart' = addToCart(cart, product, 1)
    /\ ops' = ops + 1
    /\ call' = [op |-> "addToCart", id |-> product.id, n |-> 1]
    /\ UNCHANGED <<page, orders, csvVars, genVars, serviceVars>>

\* Cart: the '-' button of the i-th line
ClickMinus(i) ==
    /\ page = "cart"
    /\ ops < MaxOps
    /\ cart' = updateCartQuantity(cart, cart[i].id, cart[i].quantity - 1)
    /\ ops' = ops + 1
    /\ call' = [op |-> "updateCartQuantity", id |-> cart[i].id,
                n |-> cart[i].quantity - 1]
    /\ UNCHANGED <<page, orders, csvVars, genVars, serviceVars>>

\* Cart: the '+' button of the i-th line
ClickPlus(i) ==
    /\ page = "cart"
    /\ ops < MaxOps
    /\ cart' = updateCartQuantity(cart, cart[i].id, cart[i].quantity + 1)
    /\ ops' = ops + 1
    /\ call' = [op |-> "updateCartQuantity", id |-> cart[i].id,
                n |-> cart[i].quantity + 1]
    /\ UNCHANGED <<page, orders, csvVars, genVars, serviceVars>>

\* Checkout.handleSubmit; with an empty cart Checkout renders a message and
\* no form
HandleSubmit(customerDetails, t) ==
    /\ page = "checkout"
    /\ cart # <<>>
    /\ ops < MaxOps
    /\ placeOrder(customerDetails, t)
    /\ ops' = ops + 1
    /\ call' = [op |-> "placeOrder", id |-> 0, n |-> 0]
    /\ UNCHANGED <<csvVars, genVars, serviceVars>>

Next ==
    \/ \E p \in HeaderPages : Navigate(p)
    \/ ContinueShopping
    \/ ProceedToCheckout
    \/ StartShopping
    \/ \E k \in DOMAIN PRODUCTS : HandleAddToCart(PRODUCTS[k])
    \/ \E i \in DOMAIN cart : ClickMinus(i)
    \/ \E i \in DOMAIN cart : ClickPlus(i)
    \/ \E customerDetails \in CustomerDetails, t \in ClockReadings :
           HandleSubmit(customerDetails, t)

Spec == Init /\ [][Next]_vars

(***************************************************************************)
(* Properties of the cart operations                                       *)
(***************************************************************************)
\* the lines of a cart for products other than id, in cart order
OtherLines(c, id) == SelectSeq(c, LAMBDA line : line.id # id)

\* the positions of the lines of product id
LinesFor(c, id) == {i \in DOMAIN c : c[i].id = id}

\* the quantity the cart holds of product id (0 without a line)
QuantityOf(c, id) ==
    IF LinesFor(c, id) = {} THEN 0
    ELSE c[CHOOSE i \in LinesFor(c, id) : TRUE].quantity

\* a sequence without its k-th element
Without(seq, k) == SubSeq(seq, 1, k - 1) \o SubSeq(seq, k + 1, Len(seq))

RECURSIVE SumOfLines(_)
SumOfLines(items) ==
    IF items = <<>> THEN 0
    ELSE Head(items).priceINR * Head(items).quantity + SumOfLines(Tail(items))

\* C2: a step of addToCart(product, q) leaves exactly one line for the
\* product, holding its previous quantity plus q (so two adds of q1 and q2
\* give one line of q1+q2); a product without a line gets a new last line
\* of quantity q; every other line is unchanged and keeps its place.
C2_AddMergesByProduct ==
    [][(call'.op = "addToCart" /\ ops' = ops + 1) =>
        LET id == call'.id
            q == call'.n
        IN /\ Cardinality(LinesFor(cart', id)) = 1
           /\ QuantityOf(cart', id) = QuantityOf(cart, id) + q
           /\ OtherLines(cart', id) = OtherLines(cart, id)
           /\ LinesFor(cart, id) = {} =>
                 /\ Len(cart') = Len(cart) + 1
                 /\ SubSeq(cart', 1, Len(cart)) = cart
                 /\ cart'[Len(cart')].id = id
           /\ LinesFor(cart, id) # {} =>
                 /\ Len(cart') = Len(cart)
                 /\ \A i \in DOMAIN cart : cart'[i].id = cart[i].id]_vars

\* product 1 added twice (1 and 2, in either order) after product 2: the
\* second add was merged into the line of product 1, behind which nothing
\* was appended
C2_Witness ==
    /\ call = [op |-> "addToCart", id |-> 1, n |-> 2]
    /\ ops = 3
    /\ Len(cart) = 2
    /\ cart[1].id = 2
    /\ cart[2].id = 1
    /\ cart[2].quantity = 3

\* C3: a step of updateCartQuantity(id, n) removes the line of id when
\* n <= 0 and sets its quantity to n when n > 0; every other line is
\* unchanged, and without a line for id the cart is unchanged.
C3_UpdateQuantity ==
    [][(call'.op = "updateCartQuantity" /\ ops' = ops + 1) =>
        LET id == call'.id
            n == call'.n
        IN /\ OtherLines(cart', id) = OtherLines(cart, id)
           /\ n <= 0 => cart' = OtherLines(cart, id)
           /\ n > 0 =>
                 /\ Len(cart') = Len(cart)
                 /\ \A i \in DOMAIN cart :
                       /\ cart'[i].id = cart[i].id
                       /\ cart'[i].priceINR = cart[i].priceINR
                       /\ cart'[i].quantity =
                            IF cart[i].id = id THEN n ELSE cart[i].quantity
           /\ LinesFor(cart, id) = {} => cart' = cart]_vars

\* products 1 and 2 were added and updateCartQuantity(1, -1) removed the
\* line of product 1
C3_Witness ==
    /\ call = [op |-> "updateCartQuantity", id |-> 1, n |-> -1]
    /\ ops = 3
    /\ Len(cart) = 1
    /\ cart[1].id = 2

\* C4: a step of placeOrder adds one order to the history whose items are
\* the cart lines of that moment, whose subtotal is the sum of price times
\* quantity over them, whose taxes are 18 % of the subtotal and whose total
\* is subtotal plus taxes; the cart is empty afterwards.
C4_PlaceOrderTotals ==
    [][(call'.op = "placeOrder" /\ ops' = ops + 1) =>
        /\ cart' = <<>>
        /\ \E k \in DOMAIN orders' :
              /\ Without(orders', k) = orders
              /\ orders'[k].items = cart
              /\ orders'[k].subtotal = SumOfLines(cart)
              /\ orders'[k].taxes * 100 = orders'[k].subtotal * 18
              /\ orders'[k].total = orders'[k].subtotal + orders'[k].taxes]_vars

\* the order placed from the lines (100 x 2), (50 x 1): 250 / 45 / 295
C4_Witness ==
    /\ call.op = "placeOrder"
    /\ cart = <<>>
    /\ Len(orders) = 1
    /\ Len(orders[1].items) = 2
    /\ orders[1].items[1].priceINR = 100 /\ orders[1].items[1].quantity = 2
    /\ orders[1].items[2].priceINR = 50 /\ orders[1].items[2].quantity = 1
    /\ orders[1].subtotal = 250
    /\ orders[1].taxes = 45
    /\ orders[1].total = 295

(***************************************************************************)
(* Properties of the order history                                         *)
(***************************************************************************)
\* how often an order occurs in a history
Occurrences(history, order) ==
    Cardinality({k \in DOMAIN history : history[k] = order})

\* C5: no step removes or changes an order of the history: every order is
\* still there afterwards, as often as before, with the same id, items,
\* subtotal, taxes and total, and the history never gets shorter.
C5_OrdersImmutable ==
    [][/\ Len(orders') >= Len(orders)
       /\ \A k \in DOMAIN orders :
             Occurrences(orders', orders[k]) >= Occurrences(orders, orders[k])]_vars

\* an order was placed, then a product was added and its quantity raised
C5_Witness ==
    /\ Len(orders) = 1
    /\ call.op = "updateCartQuantity"
    /\ ops = 4
    /\ cart # <<>>
    /\ cart[1].quantity = 2

\* C6 as stated: the new order becomes the last element of the history
C6_NewOrderLast ==
    [][orders' # orders =>
          /\ Len(orders') = Len(orders) + 1
          /\ SubSeq(orders', 1, Len(orders)) = orders]_vars

\* C6, amended: placeOrder puts the new order in front of the history: the
\* history afterwards is the new order followed by the previous history
\* (newest first).
C6_NewOrderFirst ==
    [][orders' # orders =>
          /\ Len(orders') = Len(orders) + 1
          /\ Tail(orders') = orders
          /\ Head(orders').items = cart]_vars

\* two orders, the one placed at the later clock reading in front
C6_Witness ==
    /\ Len(orders) = 2
    /\ orders[1].id = <<"MKRM-", 1>>
    /\ orders[2].id = <<"MKRM-", 0>>

\* C7: the history gains the order, the cart becomes empty and the page
\* becomes 'orders' in one and the same step: no step does one without the
\* others.
C7_PlaceOrderAtomic ==
    [][(orders' # orders \/ (call'.op = "placeOrder" /\ ops' = ops + 1)) =>
          /\ Len(orders') = Len(orders) + 1
          /\ cart # <<>>
          /\ cart' = <<>>
          /\ page = "checkout"
          /\ page' = "orders"]_vars

\* right after the first order
C7_Witness ==
    /\ call.op = "placeOrder"
    /\ page = "orders"
    /\ cart = <<>>
    /\ Len(orders) = 1
    /\ Len(orders[1].items) = 2

\* C8: every cart line has a quantity of at least 1.
C8_QuantitiesPositive ==
    \A i \in DOMAIN cart : cart[i].quantity >= 1

\* the '-' button took the only unit of a product: its line is gone and the
\* other line is left
C8_Witness ==
    /\ call.op = "updateCartQuantity"
    /\ call.n = 0
    /\ LinesFor(cart, call.id) = {}
    /\ cart # <<>>

\* C9: every order of the history has at least one item and a subtotal
\* above zero, and no step taken while the cart is empty changes the
\* history or the cart's emptiness into an order.
C9_NoOrderFromEmptyCart ==
    /\ [](\A k \in DOMAIN orders :
             Len(orders[k].items) >= 1 /\ orders[k].subtotal > 0)
    /\ [][cart = <<>> => orders' = orders]_vars

\* an order was placed and the cart page shows the empty cart
C9_Witness ==
    /\ Len(orders) = 1
    /\ cart = <<>>
    /\ page = "cart"

\* the product ids that have a line in the cart
CartIds(c) == {c[i].id : i \in DOMAIN c}

\* the quantities of the products of S, one per product
RECURSIVE QuantityOfAll(_, _)
QuantityOfAll(c, S) ==
    IF S = {} THEN 0
    ELSE LET id == CHOOSE x \in S : TRUE
         IN QuantityOf(c, id) + QuantityOfAll(c, S \ {id})

\* C23: the cart holds at most one line per product id, and the header's
\* cart count is the sum of the line quantities, which is zero exactly when
\* the cart is empty
C23_OneLinePerProduct ==
    /\ \A i, j \in DOMAIN cart : cart[i].id = cart[j].id => i = j
    /\ Cardinality(CartIds(cart)) = Len(cart)
    /\ cartCount(cart) = QuantityOfAll(cart, CartIds(cart))
    /\ cartCount(cart) = 0 <=> cart = <<>>

\* after an order emptied the cart, a product added twice: one line, a
\* count of two
C23_Witness ==
    /\ orders # <<>>
    /\ Len(cart) = 1
    /\ call.op = "addToCart"
    /\ call.n = 1
    /\ cartCount(cart) = 2

\* C24: any two distinct orders of the history have different ids, also
\* when they were placed within the same clock millisecond
C24_OrderIdsUnique ==
    \A i, j \in DOMAIN orders : i # j => orders[i].id # orders[j].id

\* what the code keeps: two orders have the same id exactly when they were
\* placed at the same clock reading
C24_IdIsClockReading ==
    [][orders' # orders =>
          \E t \in ClockReadings :
              /\ Head(orders').id = <<"MKRM-", t>>
              /\ \A k \in DOMAIN orders :
                     orders[k].id = Head(orders').id <=> orders[k].id[2] = t]_vars

\* two orders placed at the clock reading 0 carry the id MKRM-0
C24_SameMillisecond ==
    /\ Len(orders) = 2
    /\ orders[1].id = <<"MKRM-", 0>>
    /\ orders[2].id = <<"MKRM-", 0>>

(***************************************************************************)
(* JavaScript values of the price estimator: a value is a record of its    *)
(* kind and of what it holds (the number, the text or the members).        *)
(* Numbers are carried in hundredths (paise), in exact arithmetic; strings *)
(* the code parses are sequences of characters.                            *)
(***************************************************************************)
Plain(kind) == [kind |-> kind, number |-> 0, text |-> <<>>, members |-> <<>>]

Num(hundredths) == [Plain("number") EXCEPT !.number = hundredths]

Str(s) == [Plain("string") EXCEPT !.text = s]

Obj(members) == [Plain("object") EXCEPT !.members = members]

Undefined == Plain("undefined")

JsNull == Plain("null")

NaN == Plain("NaN")

\* a function object or Object.prototype: what obj[name] yields for the
\* name of an inherited member
InheritedMember == Plain("inherited")

\* the member names every plain object inherits from Object.prototype
InheritedMemberNames ==
    {"constructor", "toString", "valueOf", "hasOwnProperty", "isPrototypeOf",
     "toLocaleString", "propertyIsEnumerable", "__proto__"}

\* s.substring(start, end), 0-based as in JavaScript: both arguments are
\* clamped to 0..length and swapped when start > end
SubstringTo(s, start, end) ==
    LET clamp(n) == IF n < 0 THEN 0 ELSE IF n > Len(s) THEN Len(s) ELSE n
        a == clamp(start)
        b == clamp(end)
    IN IF a <= b THEN SubSeq(s, a + 1, b) ELSE SubSeq(s, b + 1, a)

(***************************************************************************)
(* JSON.parse, for texts made of whitespace, null, unsigned integers,      *)
(* strings without escapes, and objects whose members are such scalars     *)
(***************************************************************************)
JsonWhitespace == {" ", "\t", "\r", "\n"}

Quote == "\""

ParseFailure == [ok |-> FALSE, value |-> Undefined, next |-> 0]

\* a scalar that begins at position i
ParseScalar(s, i) ==
    IF StartsWithAt(s, <<"n", "u", "l", "l">>, i)
    THEN [ok |-> TRUE, value |-> JsNull, next |-> i + 4]
    ELSE IF i <= Len(s) /\ s[i] \in Digits
    THEN LET e == RunEnd(s, i, Digits)
         IN IF s[i] = "0" /\ e > i + 1 THEN ParseFailure
            ELSE [ok |-> TRUE,
                  value |-> Num(100 * ToNumber(SubSeq(s, i, e - 1))),
                  next |-> e]
    ELSE IF i <= Len(s) /\ s[i] = Quote
    THEN LET close == {j \in (i + 1)..Len(s) : s[j] = Quote}
         IN IF close = {} THEN ParseFailure
            ELSE [ok |-> TRUE,
                  value |-> Str(SubSeq(s, i + 1, Min(close) - 1)),
                  next |-> Min(close) + 1]
    ELSE ParseFailure

\* the members of an object from position i (after "{" or ","), added to acc
RECURSIVE ParseMembers(_, _, _)
ParseMembers(s, i, acc) ==
    LET key == ParseScalar(s, RunEnd(s, i, JsonWhitespace))
        colon == RunEnd(s, key.next, JsonWhitespace)
        val == ParseScalar(s, RunEnd(s, colon + 1, JsonWhitespace))
        after == RunEnd(s, val.next, JsonWhitespace)
        members == Put(acc, key.value.text, val.value)
    IN IF ~key.ok \/ key.value.kind # "string" THEN ParseFailure
       ELSE IF ~StartsWithAt(s, <<":">>, colon) THEN ParseFailure
       ELSE IF ~val.ok THEN ParseFailure
       ELSE IF StartsWithAt(s, <<"}">>, after)
       THEN [ok |-> TRUE, value |-> Obj(members), next |-> after + 1]
       ELSE IF StartsWithAt(s, <<",">>, after)
       THEN ParseMembers(s, after + 1, members)
       ELSE ParseFailure

\* a value that begins at position i
ParseValue(s, i) ==
    IF StartsWithAt(s, <<"{">>, i)
    THEN LET inner == RunEnd(s, i + 1, JsonWhitespace)
         IN IF StartsWithAt(s, <<"}">>, inner)
            THEN [ok |-> TRUE, value |-> Obj(<<>>), next |-> inner + 1]
            ELSE ParseMembers(s, i + 1, <<>>)
    ELSE ParseScalar(s, i)

\* JSON.parse(s): Some(value), or Null when it throws a SyntaxError
JSONparse(s) ==
    LET parsed == ParseValue(s, RunEnd(s, 1, JsonWhitespace))
    IN IF parsed.ok /\ RunEnd(s, parsed.next, JsonWhitespace) = Len(s) + 1
       THEN Some(parsed.value)
       ELSE Null

\* data[name] for one of the names estimatePrice reads, none of which is
\* the name of an inherited member; data is neither null nor undefined
GetMember(data, name) ==
    IF data.kind = "object" /\ name \in DOMAIN data.members
    THEN data.members[name]
    ELSE Undefined

(***************************************************************************)
(* PriceEstimatorService.estimatePrice                                     *)
(***************************************************************************)
\* basePrices[riceType]: Some(value) when the lookup finds something
basePrices(riceType) ==
    CASE riceType = "Sona Masoori Rice" -> Some(Num(550000))
      [] riceType = "Broken White Rice" -> Some(Num(300000))
      [] riceType = "Jai Sri Ram Premium Rice" -> Some(Num(650000))
      [] riceType = "Extra-Long Grain Basmati" -> Some(Num(1100000))
      [] riceType \in InheritedMemberNames -> Some(InheritedMember)
      [] OTHER -> Null

\* a * n / d for a number a and integers n, d; NaN when a is not a number
Scaled(a, n, d) ==
    IF a.kind = "number" THEN Num((a.number * n) \div d) ELSE NaN

FallbackReason ==
    Str(<<"Price estimated using standard market rates (AI model offline).">>)

\* fallbackPrice(), with new Date().getMonth() = month:
\*   base * (1 + (month % 3) * 0.05) = base * (20 + month % 3) / 20
fallbackPrice(riceType, quantity, month) ==
    LET base == OrElse(basePrices(riceType), Some(Num(500000)))[1]
        pricePerQuintal == Scaled(base, 20 + (month % 3), 20)
    IN [estimatedPriceINR |-> Scaled(pricePerQuintal, quantity, 100),
        pricePerQuintal |-> pricePerQuintal,
        reason |-> FallbackReason]

\* the character U+0060 (grave accent)
Backtick == "BACKTICK"

\* the markdown code fence
Fence == <<Backtick, Backtick, Backtick>>

JsonFence == Fence \o <<"j", "s", "o", "n">>

\* the text with a markdown code fence cut off
stripFences(text) ==
    LET jsonStr == Trim(text)
    IN IF StartsWith(jsonStr, JsonFence)
       THEN Trim(SubstringTo(jsonStr, 7, Len(jsonStr) - 3))
       ELSE IF StartsWith(jsonStr, Fence)
       THEN Trim(SubstringTo(jsonStr, 3, Len(jsonStr) - 3))
       ELSE jsonStr

estimatedPriceINRName ==
    <<"e", "s", "t", "i", "m", "a", "t", "e", "d", "P", "r", "i", "c", "e",
      "I", "N", "R">>

pricePerQuintalName ==
    <<"p", "r", "i", "c", "e", "P", "e", "r", "Q", "u", "i", "n", "t", "a",
      "l">>

reasonName == <<"r", "e", "a", "s", "o", "n">>

\* the try block of estimatePrice.  outcome is what awaiting
\* ai.models.generateContent gives: it rejects, or it resolves with a result
\* whose text is undefined (text = Null) or a string (text = Some(chars)).
\* The block throws when the call rejects, on undefined.trim(), when
\* JSON.parse throws, and on reading a member of null.
tryEstimate(outcome) ==
    LET data == JSONparse(stripFences(outcome.text[1]))
    IN IF outcome.kind = "rejects" \/ outcome.text = Null
            \/ data = Null \/ data[1].kind = "null"
       THEN [threw |-> TRUE, value |-> Undefined]
       ELSE [threw |-> FALSE,
             value |->
                [estimatedPriceINR |-> GetMember(data[1], estimatedPriceINRName),
                 pricePerQuintal |-> GetMember(data[1], pricePerQuintalName),
                 reason |-> GetMember(data[1], reasonName)]]

\* estimatePrice(riceType, quantity, region, season): the promise it returns,
\* for process.env.API_KEY = key, the outcome of the external call and the
\* month of the clock
estimatePrice(riceType, quantity, region, season, key, outcome, month) ==
    IF key = Null \/ key = Some(<<>>)
    THEN [status |-> "fulfilled",
          value |-> fallbackPrice(riceType, quantity, month)]
    ELSE IF tryEstimate(outcome).threw
    THEN [status |-> "fulfilled",
          value |-> fallbackPrice(riceType, quantity, month)]
    ELSE [status |-> "fulfilled", value |-> tryEstimate(outcome).value]

(***************************************************************************)
(* The PriceEstimator page applied to one request                          *)
(***************************************************************************)
\* {"estimatedPriceINR":57,"pricePerQuintal":5,"reason":"ok"}
WellFormedText ==
    <<"{", Quote, "e", "s", "t", "i", "m", "a", "t", "e", "d", "P",
      "r", "i", "c", "e", "I", "N", "R", Quote, ":", "5", "7", ",",
      Quote, "p", "r", "i", "c", "e", "P", "e", "r", "Q", "u", "i",
      "n", "t", "a", "l", Quote, ":", "5", ",", Quote, "r", "e", "a",
      "s", "o", "n", Quote, ":", Quote, "o", "k", Quote, "}">>

\* {"estimatedPriceINR":"57","pricePerQuintal":5,"reason":"ok"}
StringPriceText ==
    <<"{", Quote, "e", "s", "t", "i", "m", "a", "t", "e", "d", "P",
      "r", "i", "c", "e", "I", "N", "R", Quote, ":", Quote, "5", "7",
      Quote, ",", Quote, "p", "r", "i", "c", "e", "P", "e", "r", "Q",
      "u", "i", "n", "t", "a", "l", Quote, ":", "5", ",", Quote, "r",
      "e", "a", "s", "o", "n", Quote, ":", Quote, "o", "k", Quote, "}">>

\* {"reason":5}
ReasonOnlyText ==
    <<"{", Quote, "r", "e", "a", "s", "o", "n", Quote, ":", "5", "}">>

\* the texts the external model answers with
AiTexts ==
    { WellFormedText,
      JsonFence \o <<"\n">> \o WellFormedText \o <<"\n">> \o Fence,
      Fence \o <<"\n">> \o WellFormedText \o <<"\n">> \o Fence \o <<"\n">>,
      JsonFence \o <<"\n">> \o WellFormedText,
      <<"S", "o", "r", "r", "y">>,
      <<"n", "u", "l", "l">>,
      <<"{", " ", "}">>,
      StringPriceText,
      ReasonOnlyText }

\* no external call was made
NoOutcome == [kind |-> "none", text |-> Null]

\* what awaiting ai.models.generateContent gives
AiOutcomes ==
    {[kind |-> "rejects", text |-> Null], [kind |-> "resolves", text |-> Null]}
        \cup {[kind |-> "resolves", text |-> Some(t)] : t \in AiTexts}

\* new Date().getMonth()
Months == 0..11

RiceTypeInputs ==
    {"Sona Masoori Rice", "Broken White Rice", "Jai Sri Ram Premium Rice",
     "Extra-Long Grain Basmati", "Unknown Rice", "constructor"}

PriceQuantities == (1..MaxQuantity) \cup {100}

\* the arguments of estimatePrice
PriceForms ==
    [riceType : RiceTypeInputs, quantity : PriceQuantities,
     region : {"Kakinada", "Warangal"}, season : {"Kharif", "Rabi (Winter)"}]

ApiKeys == {Null, Some(<<"k">>)}

InitPrice ==
    /\ page = "estimate"
    /\ cart = <<>>
    /\ orders = <<>>
    /\ ops = 0
    /\ call = [op |-> "none", id |-> 0, n |-> 0]
    /\ CsvIdle
    /\ GenIdle
    /\ TraceIdle
    /\ ChatIdle
    /\ apiKey \in ApiKeys
    /\ formData \in PriceForms
    /\ priceResult = Null
    /\ priceError = ""
    /\ priceLoading = FALSE
    /\ priceCall = Null

\* PriceEstimator.handleSubmit up to its await (the button is disabled
\* while isLoading)
PriceHandleSubmit ==
    /\ ~priceLoading
    /\ priceLoading' = TRUE
    /\ priceError' = ""
    /\ priceResult' = Null
    /\ priceCall' = Some([riceType |-> formData.riceType,
                          quantity |-> formData.quantity,
                          region |-> formData.region,
                          season |-> formData.season,
                          settled |-> FALSE, outcome |-> NoOutcome,
                          month |-> 0])
    /\ UNCHANGED <<formData, apiKey, appVars, csvVars, genVars, traceVars,
                   chatVars>>

\* PriceEstimator.handleSubmit from its await on: the promise of
\* estimatePrice settles; try / catch / finally
PriceSettle(outcome, month) ==
    /\ priceCall # Null
    /\ ~priceCall[1].settled
    /\ LET c == priceCall[1]
           promise == estimatePrice(c.riceType, c.quantity, c.region,
                                    c.season, apiKey, outcome, month)
       IN /\ IF promise.status = "fulfilled"
             THEN /\ priceResult' = Some(promise.value)
                  /\ priceError' = priceError
             ELSE /\ priceError' =
                         "Failed to get an estimate. Please try again later."
                  /\ priceResult' = priceResult
          /\ priceCall' = Some([c EXCEPT !.settled = TRUE,
                                         !.outcome = outcome,
                                         !.month = month])
    /\ priceLoading' = FALSE
    /\ UNCHANGED <<formData, apiKey, appVars, csvVars, genVars, traceVars,
                   chatVars>>

NextPrice ==
    \/ PriceHandleSubmit
    \/ \E month \in Months :
           \E outcome \in (IF apiKey = Null THEN {NoOutcome} ELSE AiOutcomes) :
               PriceSettle(outcome, month)

SpecPrice == InitPrice /\ [][NextPrice]_vars

\* the price table of the fallback estimator, in rupees (src/index.tsx:238)
TablePrices ==
    [type \in {"Sona Masoori Rice", "Broken White Rice",
               "Jai Sri Ram Premium Rice", "Extra-Long Grain Basmati"} |->
        CASE type = "Sona Masoori Rice" -> 5500
          [] type = "Broken White Rice" -> 3000
          [] type = "Jai Sri Ram Premium Rice" -> 6500
          [] type = "Extra-Long Grain Basmati" -> 11000]

\* the request has settled with the result of the fallback estimator
SettledWithFallback ==
    /\ priceCall # Null
    /\ priceCall[1].settled
    /\ priceResult # Null
    /\ priceResult[1].reason = FallbackReason

\* pricePerQuintal = base x (1 + (month mod 3) x 0.05) in paise, and
\* estimatedPrice = pricePerQuintal x quantity / 100, for the call c
FallbackFormula(c, estimate) ==
    LET base == IF c.riceType \in DOMAIN TablePrices
                THEN TablePrices[c.riceType] ELSE 5000
        perQuintal == base * 5 * (20 + (c.month % 3))
    IN /\ estimate.pricePerQuintal = Num(perQuintal)
       /\ estimate.estimatedPriceINR.kind = "number"
       /\ estimate.estimatedPriceINR.number * 100 = perQuintal * c.quantity

C13_FallbackOfOrdinaryTypes ==
    (SettledWithFallback /\ priceCall[1].riceType \notin InheritedMemberNames)
        => FallbackFormula(priceCall[1], priceResult[1])

\* an unrecognized type in a month with the largest season effect:
\* 5000 x 1.10 = 5500 per quintal, 2 quintals for 110.00
C13_UnknownTypeReached ==
    /\ SettledWithFallback
    /\ priceCall[1].riceType = "Unknown Rice"
    /\ priceCall[1].quantity = 2
    /\ priceCall[1].month = 11
    /\ priceResult[1].pricePerQuintal = Num(550000)
    /\ priceResult[1].estimatedPriceINR = Num(11000)

\* the text parses into an object with a numeric total price, a numeric
\* per-unit price and a string justification
WellShaped(outcome) ==
    /\ outcome.kind = "resolves"
    /\ outcome.text # Null
    /\ LET data == JSONparse(stripFences(outcome.text[1]))
       IN /\ data # Null
          /\ data[1].kind = "object"
          /\ GetMember(data[1], estimatedPriceINRName).kind = "number"
          /\ GetMember(data[1], pricePerQuintalName).kind = "number"
          /\ GetMember(data[1], reasonName).kind = "string"

\* the settled request got the result of the fallback estimator
GotFallback ==
    /\ priceResult =
           Some(fallbackPrice(priceCall[1].riceType, priceCall[1].quantity,
                              priceCall[1].month))
    /\ priceError = ""

\* C14: when the credential is missing, the external call fails or the
\* response is not of the expected shape, estimatePrice returns the result
\* of the fallback estimator; the page never shows its error.
C14_DegradesToFallback ==
    /\ priceError = ""
    /\ (priceCall # Null /\ priceCall[1].settled
            /\ (apiKey = Null \/ ~WellShaped(priceCall[1].outcome)))
           => GotFallback

\* the part of C14 the code keeps: no credential, a failed call, a text
\* that is not JSON and the JSON text null give the fallback's result, and
\* the page never shows its error
C14_FallbackOnFailure ==
    /\ priceError = ""
    /\ (priceCall # Null /\ priceCall[1].settled
            /\ (\/ apiKey = Null
                \/ priceCall[1].outcome.kind = "rejects"
                \/ priceCall[1].outcome.text = Null
                \/ JSONparse(stripFences(priceCall[1].outcome.text[1])) = Null
                \/ JSONparse(stripFences(priceCall[1].outcome.text[1]))
                       = Some(JsNull)))
           => GotFallback

\* a fenced answer of the expected shape is returned as parsed
C14_FencedAnswerReached ==
    /\ priceCall # Null
    /\ priceCall[1].settled
    /\ priceCall[1].outcome.text =
           Some(JsonFence \o <<"\n">> \o WellFormedText \o <<"\n">> \o Fence)
    /\ priceResult = Some([estimatedPriceINR |-> Num(5700),
                           pricePerQuintal |-> Num(500),
                           reason |-> Str(<<"o", "k">>)])

(***************************************************************************)
(* Chatbot.sendMessage.  A chunk of the stream is its text (the empty      *)
(* sequence also stands for an undefined text: both are skipped) and its   *)
(* candidates[0].groundingMetadata.groundingChunks (Null when any link of  *)
(* that chain is missing), each with a web source or none.                 *)
(***************************************************************************)
WebA == [uri |-> "https://a.example", title |-> "A"]

WebB == [uri |-> "https://b.example", title |-> "B"]

\* the chunks a stream delivers
ChunkInputs ==
    { [text |-> <<"a">>, grounding |-> Null],
      [text |-> <<"b", "c">>, grounding |-> Some(<<[web |-> Some(WebA)]>>)],
      [text |-> <<>>,
       grounding |-> Some(<<[web |-> Some(WebB)], [web |-> Null]>>)],
      [text |-> <<"d">>, grounding |-> Some(<<>>)] }

\* the texts the user submits
UserTexts == {<<"h", "i">>, <<" ">>}

\* the number of user messages in the history
Requests == Cardinality({i \in 1..Len(messages) : messages[i].role = "user"})

\* groundingChunks.map(c => c.web).filter(Boolean)
webSources(groundingChunks) ==
    LET RECURSIVE collect(_)
        collect(n) ==
            IF n = 0 THEN <<>>
            ELSE IF groundingChunks[n].web # Null
                 THEN Append(collect(n - 1), groundingChunks[n].web[1])
                 ELSE collect(n - 1)
    IN collect(Len(groundingChunks))

\* if (groundingChunks) sources = groundingChunks.map(c => c.web).filter(Boolean)
sourcesAfter(sources, chunk) ==
    IF chunk.grounding # Null
    THEN webSources(chunk.grounding[1])
    ELSE sources

\* setMessages(prev => [...prev, message])
messagesWith(prev, message) == Append(prev, message)

\* the update applied to the first message of the history
firstMessageUpdated(prev, accumulatedText, sources) ==
    [prev EXCEPT ![1] =
        [@ EXCEPT !.text = accumulatedText,
                  !.sources = IF Len(sources) > 0 THEN sources ELSE @]]

\* the updater of setMessages inside the loop: the last message gets the
\* accumulated text and, when there are any, the sources
lastMessageUpdated(prev, accumulatedText, sources) ==
    [prev EXCEPT ![Len(prev)] =
        [@ EXCEPT !.text = accumulatedText,
                  !.sources = IF Len(sources) > 0 THEN sources ELSE @]]

ApologyMessage == [role |-> "bot", text |-> ApologyText, sources |-> <<>>]

\* sendMessage without the test of the loading flag
SendMessageWhileLoading(message) ==
    /\ Requests < MaxRequests
    /\ IF Trim(message) = <<>> \/ apiKey = Null \/ apiKey = Some(<<>>)
       THEN UNCHANGED chatVars
       ELSE /\ messages' = messagesWith(messages,
                               [role |-> "user", text |-> message,
                                sources |-> <<>>])
            /\ isLoading' = TRUE
            /\ stream' = [stream EXCEPT !.pc = "calling"]
    /\ UNCHANGED <<apiKey, appVars, csvVars, genVars, traceVars, priceVars>>

\* sendMessage(message) up to its first await
SendMessage(message) ==
    /\ Requests < MaxRequests
    /\ IF isLoading \/ Trim(message) = <<>> \/ apiKey = Null
            \/ apiKey = Some(<<>>)
       THEN UNCHANGED chatVars
       ELSE /\ messages' = messagesWith(messages,
                               [role |-> "user", text |-> message,
                                sources |-> <<>>])
            /\ isLoading' = TRUE
            /\ stream' = [stream EXCEPT !.pc = "calling"]
    /\ UNCHANGED <<apiKey, appVars, csvVars, genVars, traceVars, priceVars>>

\* await ai.models.generateContentStream(...) rejects: catch and finally
CallFails ==
    /\ stream.pc = "calling"
    /\ messages' = messagesWith(messages, ApologyMessage)
    /\ isLoading' = FALSE
    /\ stream' = [NoStream EXCEPT !.chunks = stream.chunks]
    /\ UNCHANGED <<apiKey, appVars, csvVars, genVars, traceVars, priceVars>>

\* it resolves: accumulatedText = '', sources = [], and the empty bot
\* message is added
StreamOpens ==
    /\ stream.pc = "calling"
    /\ messages' = messagesWith(messages,
                       [role |-> "bot", text |-> <<>>, sources |-> <<>>])
    /\ stream' = [stream EXCEPT !.pc = "streaming",
                                !.accumulatedText = <<>>,
                                !.sources = <<>>]
    /\ UNCHANGED <<isLoading, apiKey, appVars, csvVars, genVars, traceVars,
                   priceVars>>

\* one turn of for await (const chunk of stream)
ReceiveChunk(chunk) ==
    /\ stream.pc = "streaming"
    /\ stream.chunks < MaxChunks
    /\ LET accumulatedText == stream.accumulatedText \o chunk.text
           sources == sourcesAfter(stream.sources, chunk)
       IN /\ stream' = [stream EXCEPT !.accumulatedText = accumulatedText,
                                      !.sources = sources,
                                      !.chunk = chunk,
                                      !.chunks = @ + 1]
          /\ messages' = lastMessageUpdated(messages, accumulatedText, sources)
    /\ UNCHANGED <<isLoading, apiKey, appVars, csvVars, genVars, traceVars,
                   priceVars>>

\* the stream ends: finally
StreamCompletes ==
    /\ stream.pc = "streaming"
    /\ isLoading' = FALSE
    /\ stream' = [NoStream EXCEPT !.chunks = stream.chunks]
    /\ UNCHANGED <<messages, apiKey, appVars, csvVars, genVars, traceVars,
                   priceVars>>

\* the stream throws: catch and finally
StreamFails ==
    /\ stream.pc = "streaming"
    /\ messages' = messagesWith(messages, ApologyMessage)
    /\ isLoading' = FALSE
    /\ stream' = [NoStream EXCEPT !.chunks = stream.chunks]
    /\ UNCHANGED <<apiKey, appVars, csvVars, genVars, traceVars, priceVars>>

InitChat ==
    /\ AppInit
    /\ CsvIdle
    /\ GenIdle
    /\ TraceIdle
    /\ PriceIdle
    /\ ChatIdle
    /\ apiKey \in ApiKeys

NextChat ==
    \/ \E message \in UserTexts : SendMessage(message)
    \/ CallFails
    \/ StreamOpens
    \/ \E chunk \in ChunkInputs : ReceiveChunk(chunk)
    \/ StreamCompletes
    \/ StreamFails

SpecChat == InitChat /\ [][NextChat]_vars

\* the call of generateContentStream settles and an open stream ends: each
\* either succeeds or throws
SpecChatSettles ==
    /\ SpecChat
    /\ WF_vars(CallFails \/ StreamOpens)
    /\ WF_vars(StreamCompletes \/ StreamFails)

\* the position of the last user message of a history
LastUserMessage(history) ==
    CHOOSE i \in 1..Len(history) :
        /\ history[i].role = "user"
        /\ \A j \in (i + 1)..Len(history) : history[j].role # "user"

\* a request ends in this step with the apology
RequestFails ==
    /\ stream.pc # "idle"
    /\ stream'.pc = "idle"
    /\ messages'[Len(messages')] = ApologyMessage

\* C17: when a chat request fails, before the first chunk or after some
\* chunks, the history then holds for that request the user message
\* followed by exactly one bot message, the apology, and the loading flag
\* is cleared.
C17_FailureLeavesOnlyApology ==
    [][RequestFails =>
          /\ Len(messages') = LastUserMessage(messages') + 1
          /\ messages'[Len(messages')] = ApologyMessage
          /\ ~isLoading']_vars

\* the part of C17 the code keeps: every failure ends the request with the
\* apology as the last message and the loading flag cleared, and a call
\* that fails before the stream is open leaves the apology as the only bot
\* message of the request
C17_FailureAppendsApology ==
    [][(stream.pc # "idle" /\ stream'.pc = "idle" /\ messages' # messages)
          => /\ messages' = Append(messages, ApologyMessage)
             /\ ~isLoading'
             /\ (stream.pc = "calling"
                    => Len(messages') = LastUserMessage(messages') + 1)]_vars

\* a stream that failed after the chunk "a": the partial reply stays in the
\* history, followed by the apology
C17_PartialReplyKept ==
    /\ ~isLoading
    /\ Len(messages) = 4
    /\ messages[2].role = "user"
    /\ messages[3] = [role |-> "bot", text |-> <<"a">>, sources |-> <<>>]
    /\ messages[4] = ApologyMessage

\* the set of the elements of a sequence
Range(seq) == {seq[i] : i \in 1..Len(seq)}

\* the web sources a chunk cites
Citations(chunk) ==
    IF chunk.grounding = Null THEN {}
    ELSE {c.web[1] : c \in {g \in Range(chunk.grounding[1]) : g.web # Null}}

\* a chunk is received in this step
ChunkReceived == stream.pc = "streaming" /\ stream'.pc = "streaming"

\* the stream of a request completes in this step
RequestCompletes ==
    stream.pc = "streaming" /\ stream'.pc = "idle" /\ messages' = messages

\* C18: a request whose stream completes adds exactly one bot message, and
\* with each received chunk that message's text grows by the chunk's text
\* and its sources by the chunk's citations, so that they are the
\* concatenation resp. the accumulation over all chunks received so far.
C18_TextAndSourcesAccumulate ==
    [][/\ ChunkReceived =>
            LET before == messages[Len(messages)]
                after == messages'[Len(messages')]
            IN /\ Len(messages') = Len(messages)
               /\ after.role = "bot"
               /\ after.text = before.text \o stream'.chunk.text
               /\ Range(after.sources)
                      = Range(before.sources) \cup Citations(stream'.chunk)
       /\ RequestCompletes =>
            Len(messages') = LastUserMessage(messages') + 1]_vars

\* the part of C18 the code keeps: one bot message per completed stream,
\* whose text is the concatenation of the chunk texts; its sources are
\* those of the latest chunk that cited any
C18_TextAccumulatesSourcesReplaced ==
    [][/\ ChunkReceived =>
            LET before == messages[Len(messages)]
                after == messages'[Len(messages')]
            IN /\ Len(messages') = Len(messages)
               /\ SubSeq(messages', 1, Len(messages) - 1)
                      = SubSeq(messages, 1, Len(messages) - 1)
               /\ after.role = "bot"
               /\ after.text = before.text \o stream'.chunk.text
               /\ Range(after.sources)
                      = IF Citations(stream'.chunk) # {}
                        THEN Citations(stream'.chunk)
                        ELSE Range(before.sources)
       /\ RequestCompletes =>
            Len(messages') = LastUserMessage(messages') + 1]_vars

\* a completed reply made of a chunk citing A and a chunk citing B: only B
\* is left
C18_EarlierCitationLost ==
    /\ ~isLoading
    /\ Len(messages) = 3
    /\ messages[3] = [role |-> "bot", text |-> <<"b", "c">>,
                      sources |-> <<WebB>>]

\* a user message is added or a request is started in this step
RequestStarts ==
    \/ Requests' # Requests
    \/ stream.pc # "calling" /\ stream'.pc = "calling"

\* C25: at most one chat request is in flight: no user message is added and
\* no request is started while a request is loading, for a blank message or
\* without a credential, and a request that was started always clears the
\* loading flag in the end, whether it completes or fails
C25_OneRequestInFlight ==
    /\ [](isLoading <=> stream.pc # "idle")
    /\ [](apiKey = Null => messages = InitialMessages /\ ~isLoading)
    /\ [](\A i \in DOMAIN messages :
              messages[i].role = "user" => Trim(messages[i].text) # <<>>)
    /\ [][/\ RequestStarts =>
                /\ ~isLoading
                /\ stream.pc = "idle"
                /\ apiKey # Null
                /\ Requests' = Requests + 1
                /\ isLoading'
                /\ stream'.pc = "calling"
          /\ isLoading => Requests' = Requests
          /\ (stream.pc # "idle" /\ stream'.pc = "idle") => ~isLoading']_vars
    /\ (isLoading ~> ~isLoading)

\* the second request of a session is loading after the first one failed
C25_Witness ==
    /\ isLoading
    /\ stream.pc = "calling"
    /\ Requests = 2
    /\ messages[Len(messages) - 1] = ApologyMessage

\* C26: the history is append-only: no step removes or reorders a message,
\* every user message keeps its text, and the only message whose text or
\* sources change is the bot message of the request that is streaming,
\* which is the last message of the history when it changes
C26_HistoryAppendOnly ==
    [][/\ Len(messages') >= Len(messages)
       /\ \A i \in DOMAIN messages :
              /\ messages'[i].role = messages[i].role
              /\ messages'[i] # messages[i] =>
                     /\ i = Len(messages)
                     /\ Len(messages') = Len(messages)
                     /\ messages[i].role = "bot"
                     /\ stream.pc = "streaming"
                     /\ stream'.pc = "streaming"
                     /\ i = LastUserMessage(messages) + 1]_vars

\* the reply of the second request has changed while the history of the
\* first request, a partial reply and the apology, stayed in front of it
C26_Witness ==
    /\ stream.pc = "streaming"
    /\ Len(messages) = 6
    /\ messages[3] = [role |-> "bot", text |-> <<"a">>, sources |-> <<>>]
    /\ messages[4] = ApologyMessage
    /\ messages[6].text # <<>>

(***************************************************************************)
(* Traceability.handleSubmit and the session of the App: the catalog load  *)
(* completes at any point between the user's operations                    *)
(***************************************************************************)
\* traceabilityData[key] on the plain object the catalog is: Some(value)
\* when the lookup finds a record or an inherited member, Null otherwise
catalogLookup(data, key) ==
    IF key \in DOMAIN data THEN Some(data[key])
    ELSE IF InheritedName(key) # Null
    THEN Some([inheritedMember |-> InheritedName(key)[1]])
    ELSE Null


\* the batch ids the user submits
LookupIds ==
    << <<" ">> \o IdSonaMasoori \o <<" ">>,
       IdBasmathi,
       <<"t", "o", "S", "t", "r", "i", "n", "g">> >>

NotFoundMessage == "Batch ID not found. Please check the ID and try again."

\* Traceability.handleSubmit with batchId = LookupIds[i]
TraceHandleSubmit(i) ==
    /\ ops < MaxOps
    /\ LET foundRecord == catalogLookup(traceabilityData, Trim(LookupIds[i]))
       IN IF foundRecord # Null
          THEN /\ traceResult' = foundRecord
               /\ traceError' = ""
          ELSE /\ traceResult' = Null
               /\ traceError' = NotFoundMessage
    /\ ops' = ops + 1
    /\ call' = [op |-> "lookup", id |-> i, n |-> 0]
    /\ UNCHANGED <<page, cart, orders, csvVars, genVars, apiKey, priceVars,
                   chatVars>>

\* the Traceability page is left and opened again: its state starts anew
TraceRemount ==
    /\ traceResult # Null \/ traceError # ""
    /\ traceResult' = Null
    /\ traceError' = ""
    /\ UNCHANGED <<appVars, csvVars, genVars, apiKey, priceVars, chatVars>>

\* the texts of data.csv in a session
SessionCsvTexts == { IdSonaMasoori \o <<"\n">> \o NotValid }

InitSession ==
    /\ AppInit
    /\ GenIdle
    /\ TraceIdle
    /\ PriceIdle
    /\ ChatIdle
    /\ apiKey = Some(<<"k">>)
    /\ csvText \in SessionCsvTexts
    /\ traceabilityData = <<>>
    /\ loaded = "pending"

\* the user's operations and the chunks of a session so far
SessionSteps == ops + Requests + stream.chunks

NextSession ==
    \/ FetchSucceeds
    \/ FetchFails
    \/ SessionSteps < MaxOps
           /\ \E product \in OpsProducts : OpAddToCart(product, 1)
    \/ SessionSteps < MaxOps
           /\ \E newQuantity \in {0, MaxQuantity} :
                  OpUpdateCartQuantity(1, newQuantity)
    \/ SessionSteps < MaxOps
           /\ \E orderDetails \in CustomerDetails, t \in ClockReadings :
                  OpPlaceOrder(orderDetails, t)
    \/ SessionSteps < MaxOps
           /\ \E i \in DOMAIN LookupIds : TraceHandleSubmit(i)
    \/ SessionSteps < MaxOps /\ SendMessage(<<"h", "i">>)
    \/ SessionSteps < MaxOps
           /\ ReceiveChunk([text |-> <<"a">>, grounding |-> Null])
    \/ TraceRemount
    \/ CallFails
    \/ StreamOpens
    \/ StreamCompletes
    \/ StreamFails

SpecSession == InitSession /\ [][NextSession]_vars

\* the step is a lookup
LookupStep == ops' = ops + 1 /\ call'.op = "lookup"

\* the id a lookup step submitted, trimmed
LookupKey == Trim(LookupIds[call'.id])

\* C15: a lookup whose trimmed id is a key of the catalog sets the result to
\* that key's record and clears the error; a lookup of any other id clears
\* the result and sets the 'Batch ID not found' message; result and error
\* are never both set; no lookup changes the catalog, the cart or the order
\* history
C15_LookupFoundOrMessage ==
    [][/\ ~(traceResult' # Null /\ traceError' # "")
       /\ LookupStep =>
            /\ IF LookupKey \in DOMAIN traceabilityData
               THEN /\ traceResult' = Some(traceabilityData[LookupKey])
                    /\ traceError' = ""
               ELSE /\ traceResult' = Null
                    /\ traceError' = NotFoundMessage
            /\ UNCHANGED <<traceabilityData, cart, orders>>]_vars

\* what the code keeps: the same for the ids that name no member every
\* object inherits, and for those the result is the inherited member, which
\* is no record
C15_LookupOfOrdinaryIds ==
    [][/\ ~(traceResult' # Null /\ traceError' # "")
       /\ LookupStep =>
            /\ IF LookupKey \in DOMAIN traceabilityData
               THEN /\ traceResult' = Some(traceabilityData[LookupKey])
                    /\ traceError' = ""
               ELSE IF InheritedName(LookupKey) = Null
               THEN /\ traceResult' = Null
                    /\ traceError' = NotFoundMessage
               ELSE /\ traceResult' =
                           Some([inheritedMember |->
                                     InheritedName(LookupKey)[1]])
                    /\ traceError' = ""
            /\ UNCHANGED <<traceabilityData, cart, orders>>]_vars

\* the lookup of 'toString' set the result although the catalog has no such
\* key
C15_InheritedMemberFound ==
    /\ call.op = "lookup"
    /\ Trim(LookupIds[call.id]) \notin DOMAIN traceabilityData
    /\ traceResult # Null
    /\ traceError = ""

\* C16: the catalog changes only in the step that completes the load, which
\* happens at most once; a failed load leaves the catalog empty; the load
\* changes neither the cart nor the order history; no cart, order, lookup
\* or chat step changes the catalog
C16_CatalogSetOnce ==
    [][/\ traceabilityData' # traceabilityData
              => loaded = "pending" /\ loaded' = "done"
       /\ loaded # "pending" => UNCHANGED <<traceabilityData, loaded>>
       /\ loaded' = "failed" => traceabilityData' = <<>>
       /\ loaded' # loaded => UNCHANGED <<cart, orders>>
       /\ (ops' # ops \/ messages' # messages \/ stream' # stream)
              => UNCHANGED traceabilityData]_vars

\* the load completed after an order, a chat request and a lookup that found
\* the catalog still empty
C16_Witness ==
    /\ loaded = "done"
    /\ IdSonaMasoori \in DOMAIN traceabilityData
    /\ orders # <<>>
    /\ Len(messages) > 1
    /\ call.op = "lookup"
    /\ call.id = 1
    /\ traceError = NotFoundMessage

====
